---- MODULE Spec2Model ----
(***************************************************************************)
(* The single-turn tool-calling agent of gsampaio-rh/llm-agents: the       *)
(* Agent class of the llama3.1 notebook (src/unnamed/part_000) and the     *)
(* stand-alone functions of src/3-local-agent-tools-mistral.ipynb.         *)
(*                                                                         *)
(* Text is modelled character by character: a text is a sequence of        *)
(* one-character strings, so that quoting, stripping, reversal, parsing    *)
(* and formatting are computed the way the code computes them.             *)
(* A Python value is a record [t |-> type tag, v |-> payload].             *)
(***************************************************************************)
EXTENDS Integers, Sequences, FiniteSets

\* ------------------------------------------------------------ characters
SQ == "'"
DQ == "\""
BS == "\\"
NL == "\n"
SP == " "
\* The grave accent cannot be written inside a TLA+ string; this atom stands for
\* that character.
BT == "GRAVE"

Digits == <<"0","1","2","3","4","5","6","7","8","9">>

\* --------------------------------------------------- string literals of the code
Key ==
  [ tool_choice |-> <<"t","o","o","l","_","c","h","o","i","c","e">>,
    tool_input |-> <<"t","o","o","l","_","i","n","p","u","t">>,
    num1 |-> <<"n","u","m","1">>,
    num2 |-> <<"n","u","m","2">>,
    operation |-> <<"o","p","e","r","a","t","i","o","n">>,
    response |-> <<"r","e","s","p","o","n","s","e">>,
    error |-> <<"e","r","r","o","r">>,
    extra |-> <<"e","x","t","r","a">> ]

Name ==
  [ basic_calculator |-> <<"b","a","s","i","c","_","c","a","l","c","u","l","a","t","o","r">>,
    reverse_string |-> <<"r","e","v","e","r","s","e","_","s","t","r","i","n","g">>,
    no_tool |-> <<"n","o"," ","t","o","o","l">>,
    nonexistent_tool |-> <<"n","o","n","e","x","i","s","t","e","n","t","_","t","o","o","l">>,
    empty |-> <<>> ]

OpName ==
  [ add |-> <<"a","d","d">>,
    subtract |-> <<"s","u","b","t","r","a","c","t">>,
    multiply |-> <<"m","u","l","t","i","p","l","y">>,
    divide |-> <<"d","i","v","i","d","e">>,
    floor_divide |-> <<"f","l","o","o","r","_","d","i","v","i","d","e">>,
    modulus |-> <<"m","o","d","u","l","u","s">>,
    power |-> <<"p","o","w","e","r">>,
    lt |-> <<"l","t">>,
    le |-> <<"l","e">>,
    eq |-> <<"e","q">>,
    ne |-> <<"n","e">>,
    ge |-> <<"g","e">>,
    gt |-> <<"g","t">> ]

Msg ==
  [ invalid_input |-> <<"I","n","v","a","l","i","d"," ","i","n","p","u","t"," ","f","o","r","m","a","t","."," ","P","l","e","a","s","e"," ","p","r","o","v","i","d","e"," ","a"," ","v","a","l","i","d"," ","J","S","O","N"," ","s","t","r","i","n","g",".">>,
    op_error |-> <<"\n","\n","E","r","r","o","r"," ","d","u","r","i","n","g"," ","o","p","e","r","a","t","i","o","n"," ","e","x","e","c","u","t","i","o","n",".">>,
    unsupported |-> <<"\n","\n","U","n","s","u","p","p","o","r","t","e","d"," ","o","p","e","r","a","t","i","o","n","."," ","P","l","e","a","s","e"," ","p","r","o","v","i","d","e"," ","a"," ","v","a","l","i","d"," ","o","p","e","r","a","t","i","o","n",".">>,
    answer_pre |-> <<"\n","\n","T","h","e"," ","a","n","s","w","e","r"," ","i","s",":"," ">>,
    answer_post |-> <<".","\n","C","a","l","c","u","l","a","t","e","d"," ","w","i","t","h"," ","b","a","s","i","c","_","c","a","l","c","u","l","a","t","o","r",".">>,
    reversed_pre |-> <<"T","h","e"," ","r","e","v","e","r","s","e","d"," ","s","t","r","i","n","g"," ","i","s",":"," ">>,
    reversed_post_agent |-> <<"\n","\n","E","x","e","c","u","t","e","d"," ","u","s","i","n","g"," ","t","h","e"," ","r","e","v","e","r","s","e","_","s","t","r","i","n","g"," ","f","u","n","c","t","i","o","n",".">>,
    reversed_post_nb |-> <<"\n","\n",".","E","x","e","c","u","t","e","d"," ","u","s","i","n","g"," ","t","h","e"," ","r","e","v","e","r","s","e","_","s","t","r","i","n","g"," ","f","u","n","c","t","i","o","n",".">>,
    exec_error_pre |-> <<"E","r","r","o","r"," ","e","x","e","c","u","t","i","n","g"," ","t","o","o","l"," ">>,
    colon_sp |-> <<":"," ">>,
    tool_pre |-> <<"T","o","o","l"," ">>,
    not_found_post |-> <<" ","n","o","t"," ","f","o","u","n","d"," ","o","r"," ","u","n","s","u","p","p","o","r","t","e","d"," ","o","p","e","r","a","t","i","o","n",".">>,
    invoke_error_pre |-> <<"E","r","r","o","r"," ","i","n"," ","i","n","v","o","k","i","n","g"," ","m","o","d","e","l","!"," ">>,
    response_pre_agent |-> <<"\n","\n","R","e","s","p","o","n","s","e"," ","f","r","o","m"," ","m","o","d","e","l",":"," ">>,
    response_pre_nb |-> <<"\n","\n","R","e","s","p","o","n","s","e"," ","f","r","o","m"," ","O","l","l","a","m","a"," ","m","o","d","e","l",":"," ">> ]

ErrMsg ==
  [ div_zero |-> <<"d","i","v","i","s","i","o","n"," ","b","y"," ","z","e","r","o">>,
    int_div_zero |-> <<"i","n","t","e","g","e","r"," ","d","i","v","i","s","i","o","n"," ","o","r"," ","m","o","d","u","l","o"," ","b","y"," ","z","e","r","o">>,
    int_mod_zero |-> <<"i","n","t","e","g","e","r"," ","m","o","d","u","l","o"," ","b","y"," ","z","e","r","o">>,
    zero_neg_pow |-> <<"0",".","0"," ","c","a","n","n","o","t"," ","b","e"," ","r","a","i","s","e","d"," ","t","o"," ","a"," ","n","e","g","a","t","i","v","e"," ","p","o","w","e","r">>,
    no_attr_mid |-> <<"'"," ","o","b","j","e","c","t"," ","h","a","s"," ","n","o"," ","a","t","t","r","i","b","u","t","e"," ","'">>,
    not_subscriptable |-> <<"'"," ","o","b","j","e","c","t"," ","i","s"," ","n","o","t"," ","s","u","b","s","c","r","i","p","t","a","b","l","e">>,
    unhashable_pre |-> <<"u","n","h","a","s","h","a","b","l","e"," ","t","y","p","e",":"," ","'">>,
    list_indices |-> <<"l","i","s","t"," ","i","n","d","i","c","e","s"," ","m","u","s","t"," ","b","e"," ","i","n","t","e","g","e","r","s"," ","o","r"," ","s","l","i","c","e","s",","," ","n","o","t"," ","s","t","r">>,
    str_indices |-> <<"s","t","r","i","n","g"," ","i","n","d","i","c","e","s"," ","m","u","s","t"," ","b","e"," ","i","n","t","e","g","e","r","s",","," ","n","o","t"," ","'","s","t","r","'">>,
    json_decode |-> <<"E","x","p","e","c","t","i","n","g"," ","v","a","l","u","e">>,
    json_not_str |-> <<"t","h","e"," ","J","S","O","N"," ","o","b","j","e","c","t"," ","m","u","s","t"," ","b","e"," ","s","t","r",","," ","b","y","t","e","s"," ","o","r"," ","b","y","t","e","a","r","r","a","y",","," ","n","o","t"," ">>,
    conn_refused |-> <<"C","o","n","n","e","c","t","i","o","n"," ","r","e","f","u","s","e","d">>,
    unsupported_operand |-> <<"u","n","s","u","p","p","o","r","t","e","d"," ","o","p","e","r","a","n","d"," ","t","y","p","e","(","s",")">> ]

Word ==
  [ str |-> <<"s","t","r">>,
    int |-> <<"i","n","t">>,
    float |-> <<"f","l","o","a","t">>,
    bool |-> <<"b","o","o","l">>,
    NoneType |-> <<"N","o","n","e","T","y","p","e">>,
    dict |-> <<"d","i","c","t">>,
    list |-> <<"l","i","s","t">>,
    tuple |-> <<"t","u","p","l","e">>,
    slice |-> <<"s","l","i","c","e">>,
    replace |-> <<"r","e","p","l","a","c","e">>,
    get |-> <<"g","e","t">>,
    true |-> <<"t","r","u","e">>,
    false |-> <<"f","a","l","s","e">>,
    null |-> <<"n","u","l","l">>,
    True_ |-> <<"T","r","u","e">>,
    False_ |-> <<"F","a","l","s","e">>,
    None_ |-> <<"N","o","n","e">> ]

\* the documentation of the tools (part_000, and nb_ for the stand-alone
\* notebook), the system prompt templates, and the texts of prepare_tools,
\* think and str.format
Doc ==
  [ basic_calculator |->
      <<"\n"," "," "," "," ","P","e","r","f","o","r","m"," ","a"," ","n","u","m","e","r","i","c"," ","o",
        "p","e","r","a","t","i","o","n"," ","o","n"," ","t","w","o"," ","n","u","m","b","e","r","s"," ",
        "b","a","s","e","d"," ","o","n"," ","t","h","e"," ","i","n","p","u","t"," ","s","t","r","i","n",
        "g",".","\n","\n"," "," "," "," ","P","a","r","a","m","e","t","e","r","s",":","\n"," "," "," "," ",
        "i","n","p","u","t","_","s","t","r"," ","(","s","t","r",")",":"," ","A"," ","J","S","O","N"," ",
        "s","t","r","i","n","g"," ","r","e","p","r","e","s","e","n","t","i","n","g"," ","a"," ","d","i",
        "c","t","i","o","n","a","r","y"," ","w","i","t","h"," ","k","e","y","s",":","\n"," "," "," "," ",
        " "," "," "," ","-"," ","'","n","u","m","1","'"," ","(","i","n","t",")",":"," ","T","h","e"," ",
        "f","i","r","s","t"," ","n","u","m","b","e","r",".","\n"," "," "," "," "," "," "," "," ","-"," ",
        "'","n","u","m","2","'"," ","(","i","n","t",")",":"," ","T","h","e"," ","s","e","c","o","n","d",
        " ","n","u","m","b","e","r",".","\n"," "," "," "," "," "," "," "," ","-"," ","'","o","p","e","r",
        "a","t","i","o","n","'"," ","(","s","t","r",")",":"," ","T","h","e"," ","o","p","e","r","a","t",
        "i","o","n"," ","t","o"," ","p","e","r","f","o","r","m","."," ","S","u","p","p","o","r","t","e",
        "d"," ","o","p","e","r","a","t","i","o","n","s"," ","a","r","e"," ","'","a","d","d","'",","," ",
        "'","s","u","b","t","r","a","c","t","'",",","\n"," "," "," "," "," "," "," "," "," "," "," "," ",
        " "," "," "," "," "," "," "," "," "," "," "," "," "," "," "," "," ","'","m","u","l","t","i","p",
        "l","y","'",","," ","'","d","i","v","i","d","e","'",","," ","'","f","l","o","o","r","_","d","i",
        "v","i","d","e","'",","," ","'","m","o","d","u","l","u","s","'",","," ","'","p","o","w","e","r",
        "'",","," ","'","l","t","'",",","\n"," "," "," "," "," "," "," "," "," "," "," "," "," "," "," ",
        " "," "," "," "," "," "," "," "," "," "," "," "," "," ","'","l","e","'",","," ","'","e","q","'",
        ","," ","'","n","e","'",","," ","'","g","e","'",","," ","'","g","t","'",".","\n","\n"," "," "," ",
        " ","R","e","t","u","r","n","s",":","\n"," "," "," "," ","s","t","r",":"," ","T","h","e"," ","f",
        "o","r","m","a","t","t","e","d"," ","r","e","s","u","l","t"," ","o","f"," ","t","h","e"," ","o",
        "p","e","r","a","t","i","o","n",".","\n","\n"," "," "," "," ","R","a","i","s","e","s",":","\n"," ",
        " "," "," ","E","x","c","e","p","t","i","o","n",":"," ","I","f"," ","a","n"," ","e","r","r","o",
        "r"," ","o","c","c","u","r","s"," ","d","u","r","i","n","g"," ","t","h","e"," ","o","p","e","r",
        "a","t","i","o","n"," ","(","e",".","g",".",","," ","d","i","v","i","s","i","o","n"," ","b","y",
        " ","z","e","r","o",")",".","\n"," "," "," "," ","V","a","l","u","e","E","r","r","o","r",":"," ",
        "I","f"," ","a","n"," ","u","n","s","u","p","p","o","r","t","e","d"," ","o","p","e","r","a","t",
        "i","o","n"," ","i","s"," ","r","e","q","u","e","s","t","e","d"," ","o","r"," ","i","n","p","u",
        "t"," ","i","s"," ","i","n","v","a","l","i","d",".","\n"," "," "," "," ">>,
    reverse_string |->
      <<"\n"," "," "," "," ","R","e","v","e","r","s","e"," ","t","h","e"," ","g","i","v","e","n"," ","s",
        "t","r","i","n","g",".","\n","\n"," "," "," "," ","P","a","r","a","m","e","t","e","r","s",":","\n",
        " "," "," "," ","-"," ","i","n","p","u","t","_","s","t","r","i","n","g"," ","(","s","t","r",")",
        ":"," ","T","h","e"," ","s","t","r","i","n","g"," ","t","o"," ","b","e"," ","r","e","v","e","r",
        "s","e","d",".","\n","\n"," "," "," "," ","R","e","t","u","r","n","s",":","\n"," "," "," "," ","s",
        "t","r",":"," ","T","h","e"," ","r","e","v","e","r","s","e","d"," ","s","t","r","i","n","g",".",
        "\n"," "," "," "," ">>,
    nb_basic_calculator |->
      <<"\n"," "," "," "," ","P","e","r","f","o","r","m"," ","a"," ","n","u","m","e","r","i","c"," ","o",
        "p","e","r","a","t","i","o","n"," ","o","n"," ","t","w","o"," ","n","u","m","b","e","r","s"," ",
        "b","a","s","e","d"," ","o","n"," ","t","h","e"," ","i","n","p","u","t"," ","s","t","r","i","n",
        "g",".","\n","\n"," "," "," "," ","P","a","r","a","m","e","t","e","r","s",":","\n"," "," "," "," ",
        "i","n","p","u","t","_","s","t","r"," ","(","s","t","r",")",":"," ","A"," ","J","S","O","N"," ",
        "s","t","r","i","n","g"," ","r","e","p","r","e","s","e","n","t","i","n","g"," ","a"," ","d","i",
        "c","t","i","o","n","a","r","y"," ","w","i","t","h"," ","k","e","y","s"," ","'","n","u","m","1",
        "'",","," ","'","n","u","m","2","'",","," ","a","n","d"," ","'","o","p","e","r","a","t","i","o",
        "n","'",".","\n"," "," "," "," "," "," "," "," "," "," "," "," "," "," "," "," "," "," "," "," ",
        " ","E","x","a","m","p","l","e",":"," ","'","{","\"","n","u","m","1","\"",":"," ","5",","," ","\"",
        "n","u","m","2","\"",":"," ","3",","," ","\"","o","p","e","r","a","t","i","o","n","\"",":"," ","\"",
        "a","d","d","\"","}","'"," ","o","r"," ","\"","{","'","n","u","m","1","'",":"," ","6","7","8","6",
        "9",","," ","'","n","u","m","2","'",":"," ","9","0","3","0","3","9","3",","," ","'","o","p","e",
        "r","a","t","i","o","n","'",":"," ","'","d","i","v","i","d","e","'","}","\"","\n","\n"," "," "," ",
        " ","R","e","t","u","r","n","s",":","\n"," "," "," "," ","s","t","r",":"," ","T","h","e"," ","f",
        "o","r","m","a","t","t","e","d"," ","r","e","s","u","l","t"," ","o","f"," ","t","h","e"," ","o",
        "p","e","r","a","t","i","o","n",".","\n","\n"," "," "," "," ","R","a","i","s","e","s",":","\n"," ",
        " "," "," ","E","x","c","e","p","t","i","o","n",":"," ","I","f"," ","a","n"," ","e","r","r","o",
        "r"," ","o","c","c","u","r","s"," ","d","u","r","i","n","g"," ","t","h","e"," ","o","p","e","r",
        "a","t","i","o","n"," ","(","e",".","g",".",","," ","d","i","v","i","s","i","o","n"," ","b","y",
        " ","z","e","r","o",")",".","\n"," "," "," "," ","V","a","l","u","e","E","r","r","o","r",":"," ",
        "I","f"," ","a","n"," ","u","n","s","u","p","p","o","r","t","e","d"," ","o","p","e","r","a","t",
        "i","o","n"," ","i","s"," ","r","e","q","u","e","s","t","e","d"," ","o","r"," ","i","n","p","u",
        "t"," ","i","s"," ","i","n","v","a","l","i","d",".","\n"," "," "," "," ">>,
    nb_reverse_string |->
      <<"\n"," "," "," "," ","R","e","v","e","r","s","e"," ","t","h","e"," ","g","i","v","e","n"," ","s",
        "t","r","i","n","g",".","\n","\n"," "," "," "," ","P","a","r","a","m","e","t","e","r","s",":","\n",
        " "," "," "," ","i","n","p","u","t","_","s","t","r","i","n","g"," ","(","s","t","r",")",":"," ",
        "T","h","e"," ","s","t","r","i","n","g"," ","t","o"," ","b","e"," ","r","e","v","e","r","s","e",
        "d",".","\n","\n"," "," "," "," ","R","e","t","u","r","n","s",":","\n"," "," "," "," ","s","t","r",
        ":"," ","T","h","e"," ","r","e","v","e","r","s","e","d"," ","s","t","r","i","n","g",".","\n"," ",
        " "," "," ">>,
    malformed |->
      <<"\n"," "," "," "," ","J","o","i","n","s"," ","w","o","r","d","s",".","\n","\n"," "," "," "," ","P",
        "a","r","a","m","e","t","e","r","s",":","\n"," "," "," "," ","f","i","r","s","t"," ","n","o"," ",
        "c","o","l","o","n"," ","h","e","r","e","\n"," "," "," "," ","s","e","c","o","n","d",":"," ","h",
        "a","s"," ","n","o"," ","t","y","p","e","\n"," "," "," "," ","t","h","i","r","d"," ","(","l","i",
        "s","t",":"," ","n","e","v","e","r"," ","c","l","o","s","e","d","\n"," "," "," "," ">> ]

Template ==
  [ agent |->
      <<"\n","E","n","v","i","r","o","n","m","e","n","t",":"," ","i","p","y","t","h","o","n","\n","\n","\n",
        "C","u","t","t","i","n","g"," ","K","n","o","w","l","e","d","g","e"," ","D","a","t","e",":"," ",
        "D","e","c","e","m","b","e","r"," ","2","0","2","3","\n","T","o","d","a","y"," ","D","a","t","e",
        ":"," ","J","u","l","y"," ","2","0","2","4","\n","\n","Y","o","u"," ","h","a","v","e"," ","a","c",
        "c","e","s","s"," ","t","o"," ","t","h","e"," ","f","o","l","l","o","w","i","n","g"," ","f","u",
        "n","c","t","i","o","n","s",":","\n","\n","{","t","o","o","l","_","d","e","s","c","r","i","p","t",
        "i","o","n","s","}","\n","T","h","i","n","k"," ","v","e","r","y"," ","c","a","r","e","f","u","l",
        "l","y"," ","b","e","f","o","r","e"," ","c","a","l","l","i","n","g"," ","f","u","n","c","t","i",
        "o","n","s",".","\n","I","f"," ","y","o","u"," ","c","h","o","o","s","e"," ","t","o"," ","c","a",
        "l","l"," ","a"," ","f","u","n","c","t","i","o","n"," ","O","N","L","Y"," ","r","e","p","l","y",
        " ","i","n"," ","t","h","e"," ","J","S","O","N"," ","f","o","r","m","a","t"," ","w","i","t","h",
        " ","n","o"," ","p","r","e","f","i","x"," ","o","r"," ","s","u","f","f","i","x",":","\n","\n","\"",
        "t","o","o","l","_","c","h","o","i","c","e","\"",":"," ","\"","n","a","m","e","_","o","f","_","t",
        "h","e","_","t","o","o","l","\"",",","\n","\"","t","o","o","l","_","i","n","p","u","t","\"",":"," ",
        "\"","i","n","p","u","t","s","_","t","o","_","t","h","e","_","t","o","o","l","\"","\n","\n","-"," ",
        BT,"t","o","o","l","_","c","h","o","i","c","e",BT,":"," ","T","h","e"," ","n","a","m","e"," ",
        "o","f"," ","t","h","e"," ","t","o","o","l"," ","y","o","u"," ","w","a","n","t"," ","t","o"," ",
        "u","s","e","."," ","I","t"," ","m","u","s","t"," ","b","e"," ","a"," ","t","o","o","l"," ","f",
        "r","o","m"," ","y","o","u","r"," ","t","o","o","l","b","o","x"," ","\n"," "," "," "," "," "," ",
        " "," "," "," "," "," "," "," "," "," ","o","r"," ","\"","n","o"," ","t","o","o","l","\""," ","i",
        "f"," ","y","o","u"," ","d","o"," ","n","o","t"," ","n","e","e","d"," ","t","o"," ","u","s","e",
        " ","a"," ","t","o","o","l",".","\n","-"," ",BT,"t","o","o","l","_","i","n","p","u","t",BT,":",
        " ","T","h","e"," ","s","p","e","c","i","f","i","c"," ","i","n","p","u","t","s"," ","r","e","q",
        "u","i","r","e","d"," ","f","o","r"," ","t","h","e"," ","s","e","l","e","c","t","e","d"," ","t",
        "o","o","l","."," ","\n"," "," "," "," "," "," "," "," "," "," "," "," "," "," "," "," ","I","f",
        " ","n","o"," ","t","o","o","l",","," ","j","u","s","t"," ","p","r","o","v","i","d","e"," ","a",
        " ","r","e","s","p","o","n","s","e"," ","t","o"," ","t","h","e"," ","q","u","e","r","y",".","\n",
        "\n","R","e","m","i","n","d","e","r",":","\n","-"," ","I","f"," ","l","o","o","k","i","n","g"," ",
        "f","o","r"," ","r","e","a","l"," ","t","i","m","e"," ","i","n","f","o","r","m","a","t","i","o",
        "n"," ","u","s","e"," ","r","e","l","e","v","a","n","t"," ","f","u","n","c","t","i","o","n","s",
        " ","b","e","f","o","r","e"," ","f","a","l","l","i","n","g"," ","b","a","c","k"," ","t","o"," ",
        "b","r","a","v","e","_","s","e","a","r","c","h","\n","-"," ","F","u","n","c","t","i","o","n"," ",
        "c","a","l","l","s"," ","M","U","S","T"," ","f","o","l","l","o","w"," ","t","h","e"," ","s","p",
        "e","c","i","f","i","e","d"," ","f","o","r","m","a","t",","," ","s","t","a","r","t"," ","w","i",
        "t","h"," ","<","f","u","n","c","t","i","o","n","="," ","a","n","d"," ","e","n","d"," ","w","i",
        "t","h"," ","<","/","f","u","n","c","t","i","o","n",">","\n","-"," ","R","e","q","u","i","r","e",
        "d"," ","p","a","r","a","m","e","t","e","r","s"," ","M","U","S","T"," ","b","e"," ","s","p","e",
        "c","i","f","i","e","d","\n","-"," ","O","n","l","y"," ","c","a","l","l"," ","o","n","e"," ","f",
        "u","n","c","t","i","o","n"," ","a","t"," ","a"," ","t","i","m","e","\n","-"," ","P","u","t"," ",
        "t","h","e"," ","e","n","t","i","r","e"," ","f","u","n","c","t","i","o","n"," ","c","a","l","l",
        " ","r","e","p","l","y"," ","o","n"," ","o","n","e"," ","l","i","n","e","\n","\n","Y","o","u"," ",
        "a","r","e"," ","a"," ","h","e","l","p","f","u","l"," ","A","s","s","i","s","t","a","n","t",".",
        "\n">>,
    notebook |->
      <<"\n","Y","o","u"," ","a","r","e"," ","a","n"," ","a","g","e","n","t"," ","w","i","t","h"," ","a",
        "c","c","e","s","s"," ","t","o"," ","a"," ","t","o","o","l","b","o","x","."," ","G","i","v","e",
        "n"," ","a"," ","u","s","e","r"," ","q","u","e","r","y",","," ","\n","y","o","u"," ","w","i","l",
        "l"," ","d","e","t","e","r","m","i","n","e"," ","w","h","i","c","h"," ","t","o","o","l",","," ",
        "i","f"," ","a","n","y",","," ","i","s"," ","b","e","s","t"," ","s","u","i","t","e","d"," ","t",
        "o"," ","a","n","s","w","e","r"," ","t","h","e"," ","q","u","e","r","y","."," ","\n","Y","o","u",
        " ","w","i","l","l"," ","g","e","n","e","r","a","t","e"," ","t","h","e"," ","f","o","l","l","o",
        "w","i","n","g"," ","J","S","O","N"," ","r","e","s","p","o","n","s","e",":","\n","\n","\"","t","o",
        "o","l","_","c","h","o","i","c","e","\"",":"," ","\"","n","a","m","e","_","o","f","_","t","h","e",
        "_","t","o","o","l","\"",",","\n","\"","t","o","o","l","_","i","n","p","u","t","\"",":"," ","\"","i",
        "n","p","u","t","s","_","t","o","_","t","h","e","_","t","o","o","l","\"","\n","\n","-"," ",BT,"t",
        "o","o","l","_","c","h","o","i","c","e",BT,":"," ","T","h","e"," ","n","a","m","e"," ","o","f",
        " ","t","h","e"," ","t","o","o","l"," ","y","o","u"," ","w","a","n","t"," ","t","o"," ","u","s",
        "e","."," ","I","t"," ","m","u","s","t"," ","b","e"," ","a"," ","t","o","o","l"," ","f","r","o",
        "m"," ","y","o","u","r"," ","t","o","o","l","b","o","x"," ","\n"," "," "," "," "," "," "," "," ",
        " "," "," "," "," "," "," "," ","o","r"," ","\"","n","o"," ","t","o","o","l","\""," ","i","f"," ",
        "y","o","u"," ","d","o"," ","n","o","t"," ","n","e","e","d"," ","t","o"," ","u","s","e"," ","a",
        " ","t","o","o","l",".","\n","-"," ",BT,"t","o","o","l","_","i","n","p","u","t",BT,":"," ","T",
        "h","e"," ","s","p","e","c","i","f","i","c"," ","i","n","p","u","t","s"," ","r","e","q","u","i",
        "r","e","d"," ","f","o","r"," ","t","h","e"," ","s","e","l","e","c","t","e","d"," ","t","o","o",
        "l","."," ","\n"," "," "," "," "," "," "," "," "," "," "," "," "," "," "," "," ","I","f"," ","n",
        "o"," ","t","o","o","l",","," ","j","u","s","t"," ","p","r","o","v","i","d","e"," ","a"," ","r",
        "e","s","p","o","n","s","e"," ","t","o"," ","t","h","e"," ","q","u","e","r","y",".","\n","\n","H",
        "e","r","e"," ","i","s"," ","a"," ","l","i","s","t"," ","o","f"," ","y","o","u","r"," ","t","o",
        "o","l","s"," ","a","l","o","n","g"," ","w","i","t","h"," ","t","h","e","i","r"," ","d","e","s",
        "c","r","i","p","t","i","o","n","s",":","\n","{","t","o","o","l","_","d","e","s","c","r","i","p",
        "t","i","o","n","s","}","\n","\n","P","l","e","a","s","e"," ","m","a","k","e"," ","a"," ","d","e",
        "c","i","s","i","o","n"," ","b","a","s","e","d"," ","o","n"," ","t","h","e"," ","p","r","o","v",
        "i","d","e","d"," ","u","s","e","r"," ","q","u","e","r","y"," ","a","n","d"," ","t","h","e"," ",
        "a","v","a","i","l","a","b","l","e"," ","t","o","o","l","s",".","\n">>,
    plain |->
      <<"Y","o","u"," ","a","r","e"," ","a"," ","h","e","l","p","f","u","l"," ","A","s","s","i","s","t",
        "a","n","t",".","\n">>,
    styled |->
      <<"R","e","p","l","y"," ","a","s"," ","{","s","t","y","l","e","}",".","\n","{","t","o","o","l","_",
        "d","e","s","c","r","i","p","t","i","o","n","s","}","\n">> ]

Txt ==
  [ no_description |->
      <<"N","o"," ","d","e","s","c","r","i","p","t","i","o","n"," ","a","v","a","i","l","a","b","l","e",
        ".">>,
    parameters_head |-> <<"P","a","r","a","m","e","t","e","r","s",":">>,
    parameters |-> <<"p","a","r","a","m","e","t","e","r","s">>,
    use_pre |-> <<"U","s","e"," ","t","h","e"," ","f","u","n","c","t","i","o","n"," ","'">>,
    use_mid |-> <<"'"," ","t","o",":"," ">>,
    tool_descriptions |-> <<"t","o","o","l","_","d","e","s","c","r","i","p","t","i","o","n","s">>,
    name |-> <<"n","a","m","e">>,
    description |-> <<"d","e","s","c","r","i","p","t","i","o","n">>,
    param_type |-> <<"p","a","r","a","m","_","t","y","p","e">>,
    required |-> <<"r","e","q","u","i","r","e","d">>,
    model |-> <<"m","o","d","e","l">>,
    format |-> <<"f","o","r","m","a","t">>,
    json |-> <<"j","s","o","n">>,
    prompt |-> <<"p","r","o","m","p","t">>,
    system |-> <<"s","y","s","t","e","m">>,
    stream |-> <<"s","t","r","e","a","m">>,
    temperature |-> <<"t","e","m","p","e","r","a","t","u","r","e">>,
    stop |-> <<"s","t","o","p">>,
    llama |-> <<"l","l","a","m","a","3",".","1">>,
    mistral |-> <<"m","i","s","t","r","a","l">>,
    undocumented |-> <<"u","n","d","o","c","u","m","e","n","t","e","d">>,
    join_words |-> <<"j","o","i","n","_","w","o","r","d","s">>,
    single_brace |->
      <<"S","i","n","g","l","e"," ","'","}","'"," ","e","n","c","o","u","n","t","e","r","e","d"," ","i",
        "n"," ","f","o","r","m","a","t"," ","s","t","r","i","n","g">>,
    expected_brace |->
      <<"e","x","p","e","c","t","e","d"," ","'","}","'"," ","b","e","f","o","r","e"," ","e","n","d"," ",
        "o","f"," ","s","t","r","i","n","g">>,
    no_index |->
      <<"R","e","p","l","a","c","e","m","e","n","t"," ","i","n","d","e","x"," ","0"," ","o","u","t"," ",
        "o","f"," ","r","a","n","g","e"," ","f","o","r"," ","p","o","s","i","t","i","o","n","a","l"," ",
        "a","r","g","s"," ","t","u","p","l","e">> ]

\* F applied to the value of arg, computed once: a local variable assignment
\* (x = arg, then the statements F that read x).
Let(arg, F(_)) == CHOOSE y \in {F(x) : x \in {arg}} : TRUE

\* --------------------------------------------------------- Python values
PyStr(s)      == [t |-> "str",      v |-> s]
PyInt(n)      == [t |-> "int",      v |-> n]
PyBool(b)     == [t |-> "bool",     v |-> b]
PyFloat(n, d) == [t |-> "float",    v |-> <<n, d>>]
PyDict(kvs)   == [t |-> "dict",     v |-> kvs]
PyList(xs)    == [t |-> "list",     v |-> xs]
PyTuple(xs)   == [t |-> "tuple",    v |-> xs]
PyNone        == [t |-> "NoneType", v |-> <<>>]

\* The result of evaluating something that may raise: exc = "" is a normal return.
Return(val)      == [exc |-> "", val |-> val, msg |-> <<>>]
Raise(exc, msg)  == [exc |-> exc, val |-> PyNone, msg |-> msg]

\* dict: an insertion-ordered sequence of <<key, value>> pairs with distinct keys
DictHas(d, k) == \E i \in 1..Len(d.v) : d.v[i][1] = k
DictAt(d, k)  == d.v[CHOOSE i \in 1..Len(d.v) : d.v[i][1] = k][2]
DictGet(d, k) == IF DictHas(d, k) THEN DictAt(d, k) ELSE PyNone
DictSet(kvs, k, val) ==
  IF \E i \in 1..Len(kvs) : kvs[i][1] = k
  THEN [kvs EXCEPT ![CHOOSE j \in 1..Len(kvs) : kvs[j][1] = k] = <<k, val>>]
  ELSE Append(kvs, <<k, val>>)

\* -------------------------------------------------------- text operations
Whitespace == {SP, NL, "\t", "\r"}

\* str.strip(chars): s without its leading and trailing characters of cs
Strip(s, cs) ==
  LET keep == {i \in 1..Len(s) : s[i] \notin cs}
  IN  IF keep = {} THEN <<>>
      ELSE SubSeq(s, CHOOSE lo \in keep : \A k \in keep : lo <= k,
                     CHOOSE hi \in keep : \A k \in keep : k <= hi)

\* str.replace(a, b) for one-character a and b
Replace(s, a, b) == IF s = <<>> THEN <<>>
                    ELSE [i \in 1..Len(s) |-> IF s[i] = a THEN b ELSE s[i]]

\* s[::-1]
Reversed(s) == IF s = <<>> THEN <<>> ELSE [i \in 1..Len(s) |-> s[Len(s) + 1 - i]]

\* sub in s
Contains(s, sub) ==
  \E i \in 0..(Len(s) - Len(sub)) : SubSeq(s, i + 1, i + Len(sub)) = sub

RECURSIVE NatToText(_)
NatToText(n) ==
  IF n < 10 THEN <<Digits[n + 1]>> ELSE NatToText(n \div 10) \o <<Digits[(n % 10) + 1]>>

\* str(int)
IntToText(n) == IF n < 0 THEN <<"-">> \o NatToText(-n) ELSE NatToText(n)

IsDigit(c)  == \E d \in 1..10 : Digits[d] = c
DigitVal(c) == (CHOOSE d \in 1..10 : Digits[d] = c) - 1

\* d with its factors p divided out
RECURSIVE Without(_, _)
Without(d, p) == IF d % p = 0 THEN Without(d \div p, p) ELSE d

\* the decimal digits of r/d after the point, for 0 < r < d, when they end
RECURSIVE FracDigits(_, _)
FracDigits(r, d) ==
  IF r = 0 THEN <<>>
  ELSE <<Digits[((10 * r) \div d) + 1]>> \o FracDigits((10 * r) % d, d)

\* str(float) of the quotient n/d, for quotients that print without an
\* exponent: exact when the decimal expansion ends ("2.0", "3.5"); a quotient
\* whose expansion does not end is abstracted to the text "n/d".
FloatToText(n, d) ==
  LET an == IF n < 0 THEN -n ELSE n
      ad == IF d < 0 THEN -d ELSE d
      neg == (n < 0) # (d < 0)
  IN  IF Without(Without(ad, 2), 5) = 1 \/ an % ad = 0
      THEN (IF neg /\ an # 0 THEN <<"-">> ELSE <<>>) \o NatToText(an \div ad) \o <<".">>
             \o (IF an % ad = 0 THEN <<"0">> ELSE FracDigits(an % ad, ad))
      ELSE IntToText(n) \o <<"/">> \o IntToText(d)

\* repr(str): single quotes unless the text holds a single and no double quote;
\* the quote in use, the backslash and the newline are escaped.
ReprQuote(s) == IF (\E i \in 1..Len(s) : s[i] = SQ) /\ ~(\E i \in 1..Len(s) : s[i] = DQ)
                THEN DQ ELSE SQ

\* positions lo..hi of s, escaped for repr with quote q
RECURSIVE ReprBody(_, _, _, _)
ReprBody(s, q, lo, hi) ==
  IF lo > hi THEN <<>>
  ELSE IF lo = hi
  THEN CASE s[lo] = q  -> <<BS, q>>
         [] s[lo] = BS -> <<BS, BS>>
         [] s[lo] = NL -> <<BS, "n">>
         [] OTHER      -> <<s[lo]>>
  ELSE Let((lo + hi) \div 2,
           LAMBDA mid : ReprBody(s, q, lo, mid) \o ReprBody(s, q, mid + 1, hi))

ReprStr(s) ==
  Let(ReprQuote(s), LAMBDA q : <<q>> \o ReprBody(s, q, 1, Len(s)) \o <<q>>)

RECURSIVE PyRepr(_)
RECURSIVE ReprItems(_, _)
RECURSIVE ReprPairs(_, _)
\* repr(value)
PyRepr(x) ==
  CASE x.t = "str"      -> ReprStr(x.v)
    [] x.t = "int"      -> IntToText(x.v)
    [] x.t = "bool"     -> IF x.v THEN Word.True_ ELSE Word.False_
    [] x.t = "float"    -> FloatToText(x.v[1], x.v[2])
    [] x.t = "NoneType" -> Word.None_
    [] x.t = "list"     -> <<"[">> \o ReprItems(x.v, 1) \o <<"]">>
    [] x.t = "tuple"    -> <<"(">> \o ReprItems(x.v, 1)
                             \o (IF Len(x.v) = 1 THEN <<",">> ELSE <<>>) \o <<")">>
    [] x.t = "dict"     -> <<"{">> \o ReprPairs(x.v, 1) \o <<"}">>

\* the items of xs from index i on, separated by ", "
ReprItems(xs, i) ==
  IF i > Len(xs) THEN <<>>
  ELSE PyRepr(xs[i]) \o (IF i < Len(xs) THEN <<",", SP>> ELSE <<>>) \o ReprItems(xs, i + 1)

ReprPairs(kvs, i) ==
  IF i > Len(kvs) THEN <<>>
  ELSE ReprStr(kvs[i][1]) \o <<":", SP>> \o PyRepr(kvs[i][2])
         \o (IF i < Len(kvs) THEN <<",", SP>> ELSE <<>>) \o ReprPairs(kvs, i + 1)

\* str(value): the text itself for a str, repr for everything else
PyToStr(x) == IF x.t = "str" THEN x.v ELSE PyRepr(x)

\* ------------------------------------------------------------ json.loads
\* A parse step yields [ok, val, next]: the value read and the position after it.
ParseOk(val, next) == [ok |-> TRUE, val |-> val, next |-> next]
ParseFail          == [ok |-> FALSE, val |-> PyNone, next |-> 0]

\* the first position from i on that holds no whitespace
SkipWs(s, i) ==
  LET rest == {j \in i..Len(s) : s[j] \notin Whitespace}
  IN  IF rest = {} THEN Len(s) + 1 ELSE CHOOSE m \in rest : \A k \in rest : m <= k

\* The number of backslashes that end just before position j of s, counted
\* back no further than position i
BackslashRun(s, i, j) ==
  LET others == {k \in i..(j - 1) : s[k] # BS}
  IN  IF others = {} THEN j - i
      ELSE j - 1 - (CHOOSE m \in others : \A k \in others : k <= m)

\* In a JSON string that starts at i: position j is the character of an escape
\* (an odd number of backslashes precedes it), or the backslash that opens one.
IsEscaped(s, i, j) == BackslashRun(s, i, j) % 2 = 1
IsEscaper(s, i, j) == s[j] = BS /\ ~IsEscaped(s, i, j)

\* The decoded characters of positions lo..hi of a JSON string that starts at i
RECURSIVE Decode(_, _, _, _)
Decode(s, i, lo, hi) ==
  IF lo > hi THEN <<>>
  ELSE IF lo = hi
  THEN IF IsEscaper(s, i, lo) THEN <<>>
       ELSE IF IsEscaped(s, i, lo) /\ s[lo] = "n" THEN <<NL>>
       ELSE <<s[lo]>>
  ELSE Let((lo + hi) \div 2,
           LAMBDA mid : Decode(s, i, lo, mid) \o Decode(s, i, mid + 1, hi))

\* The JSON string whose first character is at position i, after its opening
\* quote: it ends at the first double quote that is not escaped. The escapes
\* \" \\ \/ \n are decoded; another escape, a raw control character (strict
\* mode) or a missing closing quote fails.
ScanString(s, i) ==
  Let({j \in i..Len(s) : s[j] = DQ /\ ~IsEscaped(s, i, j)},
      LAMBDA closers :
        IF closers = {} THEN ParseFail
        ELSE Let(CHOOSE m \in closers : \A k \in closers : m <= k,
                 LAMBDA close :
                   IF \E j \in i..(close - 1) :
                        \/ s[j] \in {NL, "\t", "\r"}
                        \/ IsEscaped(s, i, j) /\ s[j] \notin {DQ, BS, "/", "n"}
                   THEN ParseFail
                   ELSE ParseOk(PyStr(Decode(s, i, i, close - 1)), close + 1)))

\* the value of the digits at positions lo..hi
RECURSIVE DigitsVal(_, _, _)
DigitsVal(s, lo, hi) ==
  IF lo > hi THEN 0 ELSE 10 * DigitsVal(s, lo, hi - 1) + DigitVal(s[hi])

\* An integer: -? (0 | [1-9][0-9]*). Fractions and exponents are not modelled:
\* a number followed by '.', 'e' or 'E' fails here.
ScanNumber(s, i) ==
  Let(IF s[i] = "-" THEN i + 1 ELSE i,
      LAMBDA j :
        IF j > Len(s) \/ ~IsDigit(s[j]) THEN ParseFail
        ELSE Let(IF s[j] = "0" THEN j + 1
                 ELSE LET stops == {k \in j..Len(s) : ~IsDigit(s[k])}
                      IN  IF stops = {} THEN Len(s) + 1
                          ELSE CHOOSE m \in stops : \A k \in stops : m <= k,
                 LAMBDA next :
                   IF next <= Len(s) /\ s[next] \in {".", "e", "E"} THEN ParseFail
                   ELSE ParseOk(PyInt(IF j > i THEN -DigitsVal(s, j, next - 1)
                                      ELSE DigitsVal(s, j, next - 1)), next)))

StartsWith(s, i, w) == i + Len(w) - 1 <= Len(s) /\ SubSeq(s, i, i + Len(w) - 1) = w

RECURSIVE ParseValue(_, _)
RECURSIVE ParseMembers(_, _, _)
RECURSIVE ParseElements(_, _, _)
\* The JSON value that starts at position i (whitespace already skipped)
ParseValue(s, i) ==
  IF i > Len(s) THEN ParseFail
  ELSE CASE s[i] = DQ  -> ScanString(s, i + 1)
         [] s[i] = "{" -> Let(SkipWs(s, i + 1),
                              LAMBDA j : IF j <= Len(s) /\ s[j] = "}"
                                         THEN ParseOk(PyDict(<<>>), j + 1)
                                         ELSE ParseMembers(s, j, <<>>))
         [] s[i] = "[" -> Let(SkipWs(s, i + 1),
                              LAMBDA j : IF j <= Len(s) /\ s[j] = "]"
                                         THEN ParseOk(PyList(<<>>), j + 1)
                                         ELSE ParseElements(s, j, <<>>))
         [] s[i] = "-" \/ IsDigit(s[i]) -> ScanNumber(s, i)
         [] StartsWith(s, i, Word.true)  -> ParseOk(PyBool(TRUE), i + 4)
         [] StartsWith(s, i, Word.false) -> ParseOk(PyBool(FALSE), i + 5)
         [] StartsWith(s, i, Word.null)  -> ParseOk(PyNone, i + 4)
         [] OTHER -> ParseFail

\* The JSON value that follows the whitespace at position i
ParseValueAt(s, i) == Let(SkipWs(s, i), LAMBDA p : ParseValue(s, p))

\* After a member's value: the closing brace, or a comma and the next member
AfterMember(s, e, kvs) ==
  IF e > Len(s) THEN ParseFail
  ELSE IF s[e] = "}" THEN ParseOk(PyDict(kvs), e + 1)
  ELSE IF s[e] = "," THEN Let(SkipWs(s, e + 1), LAMBDA n : ParseMembers(s, n, kvs))
  ELSE ParseFail

\* "key": value pairs up to the closing brace; a repeated key keeps its first
\* position and takes the last value, as a Python dict does.
ParseMembers(s, i, acc) ==
  IF i > Len(s) \/ s[i] # DQ THEN ParseFail
  ELSE Let(ScanString(s, i + 1),
           LAMBDA k :
             IF ~k.ok THEN ParseFail
             ELSE Let(SkipWs(s, k.next),
                      LAMBDA c :
                        IF c > Len(s) \/ s[c] # ":" THEN ParseFail
                        ELSE Let(ParseValueAt(s, c + 1),
                                 LAMBDA val :
                                   IF ~val.ok THEN ParseFail
                                   ELSE Let(DictSet(acc, k.val.v, val.val),
                                            LAMBDA kvs :
                                              Let(SkipWs(s, val.next),
                                                  LAMBDA e : AfterMember(s, e, kvs))))))

\* After an element: the closing bracket, or a comma and the next element
AfterElement(s, e, xs) ==
  IF e > Len(s) THEN ParseFail
  ELSE IF s[e] = "]" THEN ParseOk(PyList(xs), e + 1)
  ELSE IF s[e] = "," THEN Let(SkipWs(s, e + 1), LAMBDA n : ParseElements(s, n, xs))
  ELSE ParseFail

ParseElements(s, i, acc) ==
  Let(ParseValue(s, i),
      LAMBDA val :
        IF ~val.ok THEN ParseFail
        ELSE Let(Append(acc, val.val),
                 LAMBDA xs : Let(SkipWs(s, val.next), LAMBDA e : AfterElement(s, e, xs))))

\* json.loads(s): the value, or JSONDecodeError when s is not exactly one JSON
\* document (the position-specific message is abstracted to one text).
json_loads(s) ==
  Let(ParseValueAt(s, 1),
      LAMBDA r : IF r.ok /\ SkipWs(s, r.next) > Len(s) THEN Return(r.val)
                 ELSE Raise("JSONDecodeError", ErrMsg.json_decode))

\* ------------------------------------------------------------ json.dumps
\* positions lo..hi of s, escaped for a JSON string
RECURSIVE JsonEscape(_, _, _)
JsonEscape(s, lo, hi) ==
  IF lo > hi THEN <<>>
  ELSE IF \A i \in lo..hi : s[i] \notin {DQ, BS, NL} THEN SubSeq(s, lo, hi)
  ELSE IF lo = hi
  THEN CASE s[lo] = DQ -> <<BS, DQ>>
         [] s[lo] = BS -> <<BS, BS>>
         [] s[lo] = NL -> <<BS, "n">>
  ELSE JsonEscape(s, lo, (lo + hi) \div 2) \o JsonEscape(s, (lo + hi) \div 2 + 1, hi)

DumpStr(s) == <<DQ>> \o JsonEscape(s, 1, Len(s)) \o <<DQ>>

RECURSIVE json_dumps(_)
RECURSIVE DumpItems(_, _)
RECURSIVE DumpPairs(_, _)
\* json.dumps(value) with the default separators ", " and ": "
json_dumps(x) ==
  CASE x.t = "str"      -> DumpStr(x.v)
    [] x.t = "int"      -> IntToText(x.v)
    [] x.t = "bool"     -> IF x.v THEN Word.true ELSE Word.false
    [] x.t = "NoneType" -> Word.null
    [] x.t = "float"    -> FloatToText(x.v[1], x.v[2])
    [] x.t \in {"list", "tuple"} -> <<"[">> \o DumpItems(x.v, 1) \o <<"]">>
    [] x.t = "dict"     -> <<"{">> \o DumpPairs(x.v, 1) \o <<"}">>

DumpItems(xs, i) ==
  IF i > Len(xs) THEN <<>>
  ELSE json_dumps(xs[i]) \o (IF i < Len(xs) THEN <<",", SP>> ELSE <<>>) \o DumpItems(xs, i + 1)

DumpPairs(kvs, i) ==
  IF i > Len(kvs) THEN <<>>
  ELSE DumpStr(kvs[i][1]) \o <<":", SP>> \o json_dumps(kvs[i][2])
         \o (IF i < Len(kvs) THEN <<",", SP>> ELSE <<>>) \o DumpPairs(kvs, i + 1)

\* ------------------------------------------------------------- the tools
\* x[key] for a str key on a value that is not a dict
SubscriptError(x) ==
  Raise("TypeError",
        CASE x.t = "list" -> ErrMsg.list_indices
          [] x.t = "str"  -> ErrMsg.str_indices
          [] OTHER        -> <<SQ>> \o Word[x.t] \o ErrMsg.not_subscriptable)

\* x.attr on a value that has no such attribute
AttributeError(x, attr) ==
  Raise("AttributeError", <<SQ>> \o Word[x.t] \o ErrMsg.no_attr_mid \o attr \o <<SQ>>)

IsIntLike(x) == x.t \in {"int", "bool"}
IntOf(x)     == IF x.t = "bool" THEN (IF x.v THEN 1 ELSE 0) ELSE x.v

\* a // b for b # 0 (rounds towards minus infinity)
FloorDiv(a, b) == IF b > 0 THEN a \div b ELSE (-a) \div (-b)

RECURSIVE Pow(_, _)
Pow(a, n) == IF n = 0 THEN 1 ELSE a * Pow(a, n - 1)

SupportedOps == {OpName[k] : k \in DOMAIN OpName}

\* operations[operation](num1, num2): the operator module's function on two
\* values. Integers (and bools, which are integers) are computed exactly; on
\* other operands eq/ne compare and str + str concatenates; every other mix is
\* the TypeError Python raises (ordering two strs, repeating a str and list
\* arithmetic are outside the modelled domain).
ApplyOperation(op, x, y) ==
  IF IsIntLike(x) /\ IsIntLike(y)
  THEN LET a == IntOf(x)
           b == IntOf(y)
       IN  CASE op = OpName.add          -> Return(PyInt(a + b))
             [] op = OpName.subtract     -> Return(PyInt(a - b))
             [] op = OpName.multiply     -> Return(PyInt(a * b))
             [] op = OpName.divide       ->
                  IF b = 0 THEN Raise("ZeroDivisionError", ErrMsg.div_zero)
                  ELSE Return(PyFloat(a, b))
             [] op = OpName.floor_divide ->
                  IF b = 0 THEN Raise("ZeroDivisionError", ErrMsg.int_div_zero)
                  ELSE Return(PyInt(FloorDiv(a, b)))
             [] op = OpName.modulus      ->
                  IF b = 0 THEN Raise("ZeroDivisionError", ErrMsg.int_mod_zero)
                  ELSE Return(PyInt(a - b * FloorDiv(a, b)))
             [] op = OpName.power        ->
                  IF b >= 0 THEN Return(PyInt(Pow(a, b)))
                  ELSE IF a = 0 THEN Raise("ZeroDivisionError", ErrMsg.zero_neg_pow)
                  ELSE Return(PyFloat(1, Pow(a, -b)))
             [] op = OpName.lt -> Return(PyBool(a < b))
             [] op = OpName.le -> Return(PyBool(a <= b))
             [] op = OpName.eq -> Return(PyBool(a = b))
             [] op = OpName.ne -> Return(PyBool(a # b))
             [] op = OpName.ge -> Return(PyBool(a >= b))
             [] op = OpName.gt -> Return(PyBool(a > b))
  ELSE CASE op = OpName.eq -> Return(PyBool(x = y))
         [] op = OpName.ne -> Return(PyBool(x # y))
         [] op = OpName.add /\ x.t = "str" /\ y.t = "str" -> Return(PyStr(x.v \o y.v))
         [] OTHER -> Raise("TypeError", ErrMsg.unsupported_operand)

\* A calculator that takes its operands in the order the input text gives
\* them, whatever their keys say
Calculate_ByPosition(input_dict) ==
  IF input_dict.t # "dict"
       \/ \E k \in {Key.num1, Key.num2, Key.operation} : ~DictHas(input_dict, k)
       \/ DictGet(input_dict, Key.operation).t # "str"
       \/ DictGet(input_dict, Key.operation).v \notin SupportedOps
  THEN Return(PyStr(Msg.unsupported))
  ELSE Let(SelectSeq(input_dict.v, LAMBDA kv : kv[1] \in {Key.num1, Key.num2}),
           LAMBDA operands :
             Let(ApplyOperation(DictAt(input_dict, Key.operation).v,
                                operands[1][2], operands[2][2]),
                 LAMBDA result :
                   IF result.exc = ""
                   THEN Return(PyStr(Msg.answer_pre \o PyToStr(result.val) \o Msg.answer_post))
                   ELSE Return(PyTuple(<<PyStr(result.msg), PyStr(Msg.op_error)>>))))

\* basic_calculator from the parsed input_dict on: the three key reads inside
\* the first try (KeyError is caught there), the membership test, and the
\* operation inside the second try.
Calculate(input_dict) ==
  IF input_dict.t # "dict" THEN SubscriptError(input_dict)
  ELSE IF \E k \in {Key.num1, Key.num2, Key.operation} : ~DictHas(input_dict, k)
  THEN LET missing == IF ~DictHas(input_dict, Key.num1) THEN Key.num1
                      ELSE IF ~DictHas(input_dict, Key.num2) THEN Key.num2
                      ELSE Key.operation
       IN  Return(PyTuple(<<PyStr(ReprStr(missing)), PyStr(Msg.invalid_input)>>))
  ELSE
    LET num1      == DictAt(input_dict, Key.num1)
        num2      == DictAt(input_dict, Key.num2)
        operation == DictAt(input_dict, Key.operation)
    IN  IF operation.t \in {"list", "dict"}
        THEN Raise("TypeError", ErrMsg.unhashable_pre \o Word[operation.t] \o <<SQ>>)
        ELSE IF operation.t = "str" /\ operation.v \in SupportedOps
        THEN Let(ApplyOperation(operation.v, num1, num2),
                 LAMBDA result :
                   IF result.exc = ""
                   THEN Return(PyStr(Msg.answer_pre \o PyToStr(result.val) \o Msg.answer_post))
                   ELSE Return(PyTuple(<<PyStr(result.msg), PyStr(Msg.op_error)>>)))
        ELSE Return(PyStr(Msg.unsupported))

\* basic_calculator(input_str), the same code in both notebooks. It returns a
\* str on success and for an unsupported operation, and a 2-tuple
\* (message, explanation) for invalid input and for a failed operation; it
\* raises only what its two except clauses do not catch.
basic_calculator(input_str) ==
  IF input_str.t # "str" THEN AttributeError(input_str, Word.replace)
  ELSE Let(Strip(Strip(Replace(input_str.v, SQ, DQ), Whitespace), {DQ}),
           LAMBDA input_str_clean :
             Let(json_loads(input_str_clean),
                 LAMBDA loaded :
                   IF loaded.exc # ""
                   THEN Return(PyTuple(<<PyStr(loaded.msg), PyStr(Msg.invalid_input)>>))
                   ELSE Calculate(loaded.val)))

\* A reverse_string that moves the first character to the end instead of
\* reversing
reverse_string_Rotated(input_string, impl) ==
  LET post == IF impl = "agent" THEN Msg.reversed_post_agent ELSE Msg.reversed_post_nb
  IN  IF input_string.t = "str" /\ input_string.v # <<>>
      THEN Return(PyStr(Msg.reversed_pre \o Tail(input_string.v)
                          \o <<Head(input_string.v)>> \o post))
      ELSE Return(PyStr(Msg.reversed_pre \o post))

\* reverse_string(input_string); the two notebooks differ in the closing text.
reverse_string(input_string, impl) ==
  LET post == IF impl = "agent" THEN Msg.reversed_post_agent ELSE Msg.reversed_post_nb
  IN  CASE input_string.t = "str" ->
             Return(PyStr(Msg.reversed_pre \o Reversed(input_string.v) \o post))
        [] input_string.t \in {"list", "tuple"} ->
             Let([input_string EXCEPT !.v = Reversed(input_string.v)],
                 LAMBDA reversed_string :
                   Return(PyStr(Msg.reversed_pre \o PyRepr(reversed_string) \o post)))
        [] input_string.t = "dict" ->
             Raise("TypeError", ErrMsg.unhashable_pre \o Word.slice \o <<SQ>>)
        [] OTHER -> SubscriptError(input_string)

\* A tool of the list: the function object, with its __name__, the code it
\* runs and its __doc__ (PyNone when it has no documentation).
Tool(name, fn, doc) == [name |-> name, fn |-> fn, doc |-> doc]

\* tool(tool_input)
CallTool(tool, tool_input, impl) ==
  IF tool.fn = "basic_calculator" THEN basic_calculator(tool_input)
  ELSE reverse_string(tool_input, impl)

\* ------------------------------------------------------------ the catalog
\* s.find(sub) from position from on: the first position where sub begins, 0 if none
Find(s, sub, from) ==
  Let({i \in from..(Len(s) - Len(sub) + 1) : SubSeq(s, i, i + Len(sub) - 1) = sub},
      LAMBDA hits : IF hits = {} THEN 0 ELSE CHOOSE i \in hits : \A j \in hits : i <= j)

\* s.split(sep, 1)
Split1(s, sep) ==
  Let(Find(s, sep, 1),
      LAMBDA at : IF at = 0 THEN <<s>>
                  ELSE <<SubSeq(s, 1, at - 1), SubSeq(s, at + Len(sep), Len(s))>>)

\* the k-th smallest element of a set of positions
Kth(ps, k) == CHOOSE p \in ps : Cardinality({q \in ps : q < p}) = k - 1

\* s.split("\n")
SplitLines(s) ==
  Let({i \in 1..Len(s) : s[i] = NL},
      LAMBDA cuts :
        [k \in 1..(Cardinality(cuts) + 1) |->
           SubSeq(s, IF k = 1 THEN 1 ELSE Kth(cuts, k - 1) + 1,
                     IF k = Cardinality(cuts) + 1 THEN Len(s) ELSE Kth(cuts, k) - 1)])

\* "\n".join(texts)
RECURSIVE JoinLines(_, _)
JoinLines(texts, i) ==
  IF i > Len(texts) THEN <<>>
  ELSE texts[i] \o (IF i < Len(texts) THEN <<NL>> ELSE <<>>) \o JoinLines(texts, i + 1)

\* json.dumps(value, indent=2) for the values a descriptor holds (texts,
\* booleans and dictionaries), at nesting depth d
Indent(d) == [i \in 1..(2 * d) |-> SP]

RECURSIVE DumpIndented(_, _)
RECURSIVE DumpIndentedPairs(_, _, _)
DumpIndented(x, d) ==
  IF x.t # "dict" THEN json_dumps(x)
  ELSE IF x.v = <<>> THEN <<"{", "}">>
  ELSE <<"{", NL>> \o DumpIndentedPairs(x.v, 1, d + 1) \o <<NL>> \o Indent(d) \o <<"}">>

DumpIndentedPairs(kvs, i, d) ==
  IF i > Len(kvs) THEN <<>>
  ELSE Indent(d) \o DumpStr(kvs[i][1]) \o <<":", SP>> \o DumpIndented(kvs[i][2], d)
         \o (IF i < Len(kvs) THEN <<",", NL>> ELSE <<>>) \o DumpIndentedPairs(kvs, i + 1, d)

\* What the loop over parameters_lines has so far: whether the "Parameters:"
\* line was passed, the variable `description`, and param_dict.
Scanned(started, description, param_dict) ==
  [started |-> started, description |-> description, param_dict |-> param_dict]

\* The body of the loop for a line holding ": ": the line is split at its first
\* colon into param_name_type and description -- the same variable that holds
\* the tool's description -- and the parameter is entered into param_dict.
ParamLine(line, param_dict) ==
  Let(Find(line, <<":">>, 1),
      LAMBDA colon :
        Let(SubSeq(line, 1, colon - 1),
            LAMBDA param_name_type :
              Let(SubSeq(line, colon + 1, Len(line)),
                  LAMBDA description :
                    Let(Find(param_name_type, <<"(">>, 1),
                        LAMBDA paren :
                          Scanned(TRUE, description,
                            DictSet(param_dict,
                              Strip(IF paren = 0 THEN param_name_type
                                    ELSE SubSeq(param_name_type, 1, paren - 1), Whitespace),
                              PyDict(<<
                                <<Txt.param_type,
                                  PyStr(Strip(IF paren = 0 THEN Word.str
                                              ELSE Split1(SubSeq(param_name_type, paren + 1,
                                                                 Len(param_name_type)),
                                                          <<")">>)[1],
                                              Whitespace))>>,
                                <<Txt.description, PyStr(Strip(description, Whitespace))>>,
                                <<Txt.required, PyBool(TRUE)>> >>)))))))

\* for line in parameters_lines, from line i on
RECURSIVE ScanParameters(_, _, _)
ScanParameters(parameters_lines, i, sc) ==
  IF i > Len(parameters_lines) THEN sc
  ELSE Let(parameters_lines[i],
           LAMBDA line :
             IF Contains(line, Txt.parameters_head)
             THEN ScanParameters(parameters_lines, i + 1,
                                 Scanned(TRUE, sc.description, sc.param_dict))
             ELSE IF ~sc.started \/ Strip(line, Whitespace) = <<>>
             THEN ScanParameters(parameters_lines, i + 1, sc)
             ELSE IF Contains(line, <<":", SP>>)
             THEN Let(ParamLine(line, sc.param_dict),
                      LAMBDA after : ScanParameters(parameters_lines, i + 1, after))
             ELSE ScanParameters(parameters_lines, i + 1, sc))

\* tool_info of one tool, as the body of Agent.prepare_tools' loop builds it
ToolInfo(tool) ==
  Let(IF tool.doc.t = "str" /\ tool.doc.v # <<>> THEN Strip(tool.doc.v, Whitespace)
      ELSE Txt.no_description,
      LAMBDA docstring :
        Let(Split1(docstring, <<NL, NL>>),
            LAMBDA parts :
              Let(IF Len(parts) > 1 /\ Contains(parts[2], Txt.parameters_head)
                  THEN ScanParameters(SplitLines(parts[2]), 1,
                                      Scanned(FALSE, SplitLines(parts[1])[1], <<>>))
                  ELSE Scanned(FALSE, SplitLines(parts[1])[1], <<>>),
                  LAMBDA sc :
                    PyDict(<< <<Txt.name, PyStr(tool.name)>>,
                              <<Txt.description, PyStr(sc.description)>>,
                              <<Txt.parameters, PyDict(sc.param_dict)>> >>))))

\* the text Agent.prepare_tools joins for one tool_info
Usage(info) ==
  Txt.use_pre \o PyToStr(DictAt(info, Txt.name)) \o Txt.use_mid
    \o PyToStr(DictAt(info, Txt.description)) \o <<NL>> \o DumpIndented(info, 0)

\* A catalog that leaves out the tools whose documentation it cannot use:
\* only the tools with a "Parameters:" section get a tool_info.
Agent_tools_info_Documented(tools) ==
  Let(SelectSeq(tools, LAMBDA tool : tool.doc.t = "str"
                                      /\ Contains(tool.doc.v, Txt.parameters_head)
                                      /\ ~Contains(tool.doc.v, <<"(", "l", "i", "s", "t", ":">>)),
      LAMBDA kept_tools : [i \in 1..Len(kept_tools) |-> ToolInfo(kept_tools[i])])

\* Agent.prepare_tools: tools_info, then tools_description
Agent_tools_info(tools) == [i \in 1..Len(tools) |-> ToolInfo(tools[i])]

Agent_prepare_tools(tools) ==
  Let(Agent_tools_info(tools),
      LAMBDA tools_info :
        JoinLines([i \in 1..Len(tools_info) |-> Usage(tools_info[i])], 1))

\* tools_dict = {tool.__name__: tool.__doc__ for tool in tools}, from tool i on
RECURSIVE tools_dict(_, _, _)
tools_dict(tools, i, acc) ==
  IF i > Len(tools) THEN acc
  ELSE tools_dict(tools, i + 1, DictSet(acc, tools[i].name, tools[i].doc))

\* prepare_tools(tools) of the stand-alone notebook
prepare_tools(tools) ==
  Let(tools_dict(tools, 1, <<>>),
      LAMBDA d :
        JoinLines([i \in 1..Len(d) |->
                     d[i][1] \o <<":", SP, DQ>> \o PyToStr(d[i][2]) \o <<DQ>>], 1))

\* ---------------------------------------------------------- the instruction
\* The first brace of s at or after position i, 0 if none
NextBrace(s, i) ==
  Let({k \in i..Len(s) : s[k] \in {"{", "}"}},
      LAMBDA braces : IF braces = {} THEN 0 ELSE CHOOSE k \in braces : \A j \in braces : k <= j)

\* system_prompt.format(tool_descriptions=...), from position i on, for format
\* strings whose replacement fields are plain names: "{{" and "}}" stand for a
\* brace, {tool_descriptions} is replaced, any other field name is a KeyError.
RECURSIVE Format(_, _, _)
Format(s, i, tool_descriptions) ==
  Let(NextBrace(s, i),
      LAMBDA b :
        IF b = 0 THEN Return(PyStr(SubSeq(s, i, Len(s))))
        ELSE IF b < Len(s) /\ s[b + 1] = s[b]
        THEN Let(Format(s, b + 2, tool_descriptions),
                 LAMBDA rest : IF rest.exc # "" THEN rest
                               ELSE Return(PyStr(SubSeq(s, i, b) \o rest.val.v)))
        ELSE IF s[b] = "}" THEN Raise("ValueError", Txt.single_brace)
        ELSE Let(Find(s, <<"}">>, b + 1),
                 LAMBDA close :
                   IF close = 0 THEN Raise("ValueError", Txt.expected_brace)
                   ELSE IF close = b + 1 THEN Raise("IndexError", Txt.no_index)
                   ELSE IF SubSeq(s, b + 1, close - 1) # Txt.tool_descriptions
                   THEN Raise("KeyError", ReprStr(SubSeq(s, b + 1, close - 1)))
                   ELSE Let(Format(s, close + 1, tool_descriptions),
                            LAMBDA rest :
                              IF rest.exc # "" THEN rest
                              ELSE Return(PyStr(SubSeq(s, i, b - 1) \o tool_descriptions
                                                  \o rest.val.v)))))

\* where and how the request is posted (setup_ollama_model)
Endpoint ==
  [ model_endpoint |-> <<"h","t","t","p",":","/","/","l","o","c","a","l","h","o","s","t",":","1","1","4","3","4","/","a","p","i","/","g","e","n","e","r","a","t","e">>,
    content_type |-> <<"C","o","n","t","e","n","t","-","T","y","p","e">>,
    application_json |-> <<"a","p","p","l","i","c","a","t","i","o","n","/","j","s","o","n">> ]

\* setup_ollama_model(model, system_prompt): the fields think reads
Config(impl, system_prompt) ==
  [model_endpoint |-> Endpoint.model_endpoint,
   model |-> IF impl = "agent" THEN Txt.llama ELSE Txt.mistral,
   system_prompt |-> system_prompt,
   temperature |-> PyInt(0),
   headers |-> PyDict(<< <<Endpoint.content_type, PyStr(Endpoint.application_json)>> >>),
   stop |-> PyNone]

\* A payload without the directive for structured output, and asking for a
\* streamed answer
Payload_Streamed(config, prompt, system) ==
  PyDict(<< <<Txt.model, PyStr(config.model)>>,
            <<Txt.prompt, PyStr(prompt)>>,
            <<Txt.system, PyStr(system)>>,
            <<Txt.stream, PyBool(TRUE)>>,
            <<Txt.temperature, config.temperature>>,
            <<Txt.stop, config.stop>> >>)

\* payload of think / generate_response, given the formatted instruction
Payload(config, prompt, system) ==
  PyDict(<< <<Txt.model, PyStr(config.model)>>,
            <<Txt.format, PyStr(Txt.json)>>,
            <<Txt.prompt, PyStr(prompt)>>,
            <<Txt.system, PyStr(system)>>,
            <<Txt.stream, PyBool(FALSE)>>,
            <<Txt.temperature, config.temperature>>,
            <<Txt.stop, config.stop>> >>)

\* think / generate_response up to requests.post: data=json.dumps(payload), or
\* the exception format raised
Request(config, tool_descriptions, prompt) ==
  Let(Format(config.system_prompt, 1, tool_descriptions),
      LAMBDA system :
        IF system.exc # "" THEN system
        ELSE Return(PyStr(json_dumps(Payload(config, prompt, system.val.v)))))

\* ---------------------------------------------------------------- dispatch
\* print(...) at one of the code's print statements; color is "" for a plain print.
Printed(stmt, color, text) == [stmt |-> stmt, color |-> color, text |-> text]

\* What running a piece of code did: its prints, its tool invocations, and the
\* exception it let propagate (exc = "" when it returned).
Ran(out, calls, exc, msg) == [out |-> out, calls |-> calls, exc |-> exc, msg |-> msg]

Invocation(i, tool_input) == [tool |-> i, input |-> tool_input]

RECURSIVE AgentLoop(_, _, _, _)

\* A dispatch loop that shows repr() of the tool's return value instead of
\* str(): the text shown is no longer the text the tool returned.
AgentLoop_ReprResult(tools, i, tool_choice, tool_input) ==
  IF i > Len(tools)
  THEN Ran(<<Printed("not_found", "red",
                     Msg.tool_pre \o PyToStr(tool_choice) \o Msg.not_found_post)>>,
           <<>>, "", <<>>)
  ELSE IF PyStr(tools[i].name) = tool_choice
  THEN Let(CallTool(tools[i], tool_input, "agent"),
           LAMBDA result :
             IF result.exc = ""
             THEN Ran(<<Printed("result", "cyan", PyRepr(result.val))>>,
                      <<Invocation(i, tool_input)>>, "", <<>>)
             ELSE Ran(<<Printed("exec_error", "red",
                                Msg.exec_error_pre \o PyToStr(tool_choice)
                                  \o Msg.colon_sp \o result.msg)>>,
                      <<Invocation(i, tool_input)>>, "", <<>>))
  ELSE AgentLoop(tools, i + 1, tool_choice, tool_input)

\* Agent.execute_tool, the loop `for tool in self.tools` from index i on: the
\* first tool whose __name__ equals tool_choice is called inside try/except and
\* the method returns; with no such tool the red "not found" line is printed.
AgentLoop(tools, i, tool_choice, tool_input) ==
  IF i > Len(tools)
  THEN Ran(<<Printed("not_found", "red",
                     Msg.tool_pre \o PyToStr(tool_choice) \o Msg.not_found_post)>>,
           <<>>, "", <<>>)
  ELSE IF PyStr(tools[i].name) = tool_choice
  THEN Let(CallTool(tools[i], tool_input, "agent"),
           LAMBDA result :
             IF result.exc = ""
             THEN Ran(<<Printed("result", "cyan", PyToStr(result.val))>>,
                      <<Invocation(i, tool_input)>>, "", <<>>)
             ELSE Ran(<<Printed("exec_error", "red",
                                Msg.exec_error_pre \o PyToStr(tool_choice)
                                  \o Msg.colon_sp \o result.msg)>>,
                      <<Invocation(i, tool_input)>>, "", <<>>))
  ELSE AgentLoop(tools, i + 1, tool_choice, tool_input)

\* Agent.execute_tool(response)
Agent_execute_tool(tools, response) ==
  IF response.t # "dict"
  THEN Let(AttributeError(response, Word.get), LAMBDA e : Ran(<<>>, <<>>, e.exc, e.msg))
  ELSE Let(DictGet(response, Key.tool_choice),
           LAMBDA tool_choice :
             Let(DictGet(response, Key.tool_input),
                 LAMBDA tool_input : AgentLoop(tools, 1, tool_choice, tool_input)))

RECURSIVE NotebookLoop(_, _, _, _)

\* A dispatch loop without the `return` after the call: the scan goes on, and
\* every later entry with the chosen name is invoked as well.
NotebookLoop_NoReturn(tools, i, tool_choice, tool_input) ==
  IF i > Len(tools)
  THEN Ran(<<>>, <<>>, "", <<>>)
  ELSE IF PyStr(tools[i].name) = tool_choice
  THEN Let(CallTool(tools[i], tool_input, "notebook"),
           LAMBDA result :
             IF result.exc = ""
             THEN Let(NotebookLoop(tools, i + 1, tool_choice, tool_input),
                      LAMBDA rest :
                        Ran(<<Printed("result", "cyan", PyToStr(result.val))>> \o rest.out,
                            <<Invocation(i, tool_input)>> \o rest.calls,
                            rest.exc, rest.msg))
             ELSE Ran(<<>>, <<Invocation(i, tool_input)>>, result.exc, result.msg))
  ELSE NotebookLoop(tools, i + 1, tool_choice, tool_input)

\* execute_tool(response, tools) of the stand-alone notebook, the loop from
\* index i on: the first matching tool is called with no try around it, and
\* with no such tool tool_input is printed in cyan.
NotebookLoop(tools, i, tool_choice, tool_input) ==
  IF i > Len(tools)
  THEN Ran(<<Printed("tool_input", "cyan", PyToStr(tool_input))>>, <<>>, "", <<>>)
  ELSE IF PyStr(tools[i].name) = tool_choice
  THEN Let(CallTool(tools[i], tool_input, "notebook"),
           LAMBDA result :
             IF result.exc = ""
             THEN Ran(<<Printed("result", "cyan", PyToStr(result.val))>>,
                      <<Invocation(i, tool_input)>>, "", <<>>)
             ELSE Ran(<<>>, <<Invocation(i, tool_input)>>, result.exc, result.msg))
  ELSE NotebookLoop(tools, i + 1, tool_choice, tool_input)

\* execute_tool(response, tools)
execute_tool(tools, response) ==
  IF response.t # "dict"
  THEN Let(AttributeError(response, Word.get), LAMBDA e : Ran(<<>>, <<>>, e.exc, e.msg))
  ELSE Let(DictGet(response, Key.tool_choice),
           LAMBDA tool_choice :
             Let(DictGet(response, Key.tool_input),
                 LAMBDA tool_input : NotebookLoop(tools, 1, tool_choice, tool_input)))

\* ---------------------------------------------------- the completion service
\* What the service does with one request: it is unreachable (requests.post
\* raises ConnectionError), or it answers with a status and a body. The body is
\* either not JSON, or the JSON value response.json() returns.
Unreachable        == [kind |-> "unreachable", status |-> 0, body |-> PyNone]
NotJson(status)    == [kind |-> "not_json", status |-> status, body |-> PyNone]
Http(status, body) == [kind |-> "json", status |-> status, body |-> body]

\* What think did: its prints, the value it returned, the exception it let out
Thought(out, val, exc, msg) == [out |-> out, val |-> val, exc |-> exc, msg |-> msg]

\* `except requests.RequestException as e`: the line is printed and
\* {"error": str(e)} is returned
Caught(msg) ==
  Thought(<<Printed("invoke_error", "", Msg.invoke_error_pre \o msg)>>,
          PyDict(<< <<Key.error, PyStr(msg)>> >>), "", <<>>)

\* any other exception leaves think
Escapes(e) == Thought(<<>>, PyNone, e.exc, e.msg)

\* Agent.think / generate_response from requests.post on. The status of the
\* answer is never read. The two differ in the text of the "Response from"
\* line only.
think(reply, impl) ==
  CASE reply.kind = "unreachable" -> Caught(ErrMsg.conn_refused)
    \* response.json() raises requests.exceptions.JSONDecodeError, which is a
    \* RequestException (requests 2.27 and later)
    [] reply.kind = "not_json" -> Caught(ErrMsg.json_decode)
    [] OTHER ->
         LET response_json == reply.body
         IN  IF response_json.t # "dict" THEN Escapes(SubscriptError(response_json))
             ELSE IF ~DictHas(response_json, Key.response)
             THEN Escapes(Raise("KeyError", ReprStr(Key.response)))
             ELSE Let(DictAt(response_json, Key.response),
                      LAMBDA text :
                        IF text.t # "str"
                        THEN Escapes(Raise("TypeError", ErrMsg.json_not_str \o Word[text.t]))
                        ELSE Let(json_loads(text.v),
                                 LAMBDA loaded :
                                   IF loaded.exc # "" THEN Escapes(loaded)
                                   ELSE Thought(<<Printed("response", "",
                                                  (IF impl = "agent" THEN Msg.response_pre_agent
                                                   ELSE Msg.response_pre_nb)
                                                    \o PyToStr(loaded.val))>>,
                                                loaded.val, "", <<>>)))

\* ------------------------------------------------------------------ state
VARIABLES
  impl,      \* which program runs: "agent" (class Agent) or "notebook" (the functions)
  tools,     \* self.tools / the global tools list
  pc,        \* "idle", "waiting" (request posted, no answer yet) or "done"
  prompt,    \* the query of the current turn
  sent,      \* requests posted to the completion service in the current turn
  reply,     \* what the service did with the request
  response,  \* the value think / generate_response returned
  out,       \* the lines printed in the current turn
  calls,     \* the tool invocations of the current turn
  exc,       \* the exception the turn let reach its caller ("" when it returned)
  excMsg,    \* str() of that exception
  nWork,     \* turns begun
  config,    \* model_config / ollama_config
  tool_descriptions,  \* self.tool_descriptions / the global tools_description
  request,   \* the data of the request posted in the current turn
  kept,      \* a finished turn an observer has noted down, for comparing turns
  thread,    \* two callers of work on one Agent: each one's position and locals
  stdout,    \* what the two callers have printed, in the order it was printed
  arg,       \* a tool called on its own: the argument
  ret        \* a tool called on its own: what the call did (NoReturn before it)

\* the variables of the two callers, and of the tool called on its own
pair  == <<thread, stdout>>
bench == <<arg, ret>>

vars == <<impl, tools, pc, prompt, sent, reply, response, out, calls, exc, excMsg, nWork,
          config, tool_descriptions, request, kept, thread, stdout, arg, ret>>

\* ------------------------------------------------------------------ bounds
MaxWork == 3
\* a tool called on its own: the longest text, the largest operand
MaxLen == 3
MaxNum == 3
\* the longest tool list a caller makes
MaxTools == 3

\* ------------------------------------------------------------------ inputs
calculator == Tool(Name.basic_calculator, "basic_calculator", PyStr(Doc.basic_calculator))
reverser   == Tool(Name.reverse_string, "reverse_string", PyStr(Doc.reverse_string))
\* a second function object whose __name__ is also basic_calculator
shadow     == Tool(Name.basic_calculator, "reverse_string", PyStr(Doc.reverse_string))
\* functions the caller may add: one without documentation, one whose
\* documentation has a line without colon, one without type, one with an
\* unclosed parenthesis
undocumented == Tool(Txt.undocumented, "reverse_string", PyNone)
join_words   == Tool(Txt.join_words, "reverse_string", PyStr(Doc.malformed))

ToolLists == << <<calculator, reverser>>,
                <<calculator, reverser, shadow>>,
                <<reverser>>,
                <<undocumented, join_words, reverser>>,
                <<>> >>

\* the tools of the stand-alone notebook have their own documentation
NotebookTool(tool) ==
  IF tool.doc = PyStr(Doc.basic_calculator)
  THEN Tool(tool.name, tool.fn, PyStr(Doc.nb_basic_calculator))
  ELSE IF tool.doc = PyStr(Doc.reverse_string)
  THEN Tool(tool.name, tool.fn, PyStr(Doc.nb_reverse_string))
  ELSE tool

\* the system prompts a configuration may hold: the notebook's own template,
\* one without the placeholder, one with another replacement field
Templates(i) ==
  << IF i = "agent" THEN Template.agent ELSE Template.notebook,
     Template.plain,
     Template.styled >>

Prompts == << <<"5","+","5">>, <<"h","i">> >>

hello == <<"h","e","l","l","o">>
abc   == <<"a","b","c">>

Decision(tool_choice, tool_input) ==
  PyDict(<< <<Key.tool_choice, tool_choice>>, <<Key.tool_input, tool_input>> >>)

CalcArgs(num1, num2, operation) ==
  PyDict(<< <<Key.num1, PyInt(num1)>>, <<Key.num2, PyInt(num2)>>,
            <<Key.operation, PyStr(operation)>> >>)

\* the calculator's input the way the models write it: a string holding JSON
CalcInput(num1, num2, operation) == PyStr(json_dumps(CalcArgs(num1, num2, operation)))

\* The decisions a model may produce
Decisions ==
  << Decision(PyStr(Name.basic_calculator), CalcInput(5, 5, OpName.add)),
     Decision(PyStr(Name.basic_calculator), CalcInput(1, 0, OpName.divide)),
     Decision(PyStr(Name.basic_calculator), CalcInput(1, 0, OpName.floor_divide)),
     Decision(PyStr(Name.basic_calculator), CalcInput(1, 0, OpName.modulus)),
     Decision(PyStr(Name.basic_calculator), CalcInput(7, 2, OpName.divide)),
     Decision(PyStr(Name.basic_calculator), CalcInput(2, 3, hello)),
     Decision(PyStr(Name.basic_calculator), PyStr(hello)),
     Decision(PyStr(Name.basic_calculator), CalcArgs(5, 5, OpName.add)),
     Decision(PyStr(Name.basic_calculator), PyStr(<<"[","1","]">>)),
     Decision(PyStr(Name.reverse_string), PyStr(abc)),
     Decision(PyStr(Name.reverse_string), PyInt(5)),
     Decision(PyStr(Name.reverse_string), PyList(<<PyInt(1), PyInt(2)>>)),
     Decision(PyStr(Name.no_tool), PyStr(hello)),
     Decision(PyStr(Name.empty), PyStr(hello)),
     Decision(PyNone, PyStr(hello)),
     Decision(PyStr(Name.nonexistent_tool), PyStr(<<"x">>)),
     \* a key missing, a key too many
     PyDict(<< <<Key.tool_input, PyStr(hello)>> >>),
     PyDict(<< <<Key.tool_choice, PyStr(Name.reverse_string)>> >>),
     PyDict(<< <<Key.tool_choice, PyStr(Name.reverse_string)>>,
               <<Key.tool_input, PyStr(abc)>>, <<Key.extra, PyInt(1)>> >>),
     PyDict(<< <<Key.tool_choice, PyStr(Name.no_tool)>>,
               <<Key.tool_input, PyStr(hello)>>, <<Key.extra, PyInt(1)>> >>),
     PyDict(<<>>) >>

Generated(text) == Http(200, PyDict(<< <<Key.response, PyStr(text)>> >>))

\* Generated texts that are not a JSON object: other JSON values, and texts
\* json.loads rejects (single-quoted, cut short, empty, prose)
OtherTexts ==
  << json_dumps(PyList(<<PyInt(1)>>)),
     json_dumps(PyInt(5)),
     json_dumps(PyStr(hello)),
     json_dumps(PyNone),
     Replace(json_dumps(Decisions[13]), DQ, SQ),
     SubSeq(json_dumps(Decisions[10]), 1, 20),
     <<>>,
     hello >>

\* What the service may do with a request
Replies ==
  [i \in 1..Len(Decisions) |-> Generated(json_dumps(Decisions[i]))]
    \o [i \in 1..Len(OtherTexts) |-> Generated(OtherTexts[i])]
    \o << Unreachable,
          NotJson(502),
          Http(404, PyDict(<< <<Key.error, PyStr(hello)>> >>)),
          Http(500, PyDict(<< <<Key.response, PyStr(json_dumps(Decisions[10]))>> >>)),
          Http(200, PyDict(<< <<Key.response, PyNone>> >>)),
          Http(200, PyList(<<>>)) >>

NoReply == [kind |-> "none", status |-> 0, body |-> PyNone]

\* the callers of work that share one Agent
Callers == {1, 2}

\* a caller that has not called work yet: the locals of work, think and
\* execute_tool are unset
Idle == [pc |-> "idle", prompt |-> <<>>, reply |-> NoReply, response |-> PyNone,
         calls |-> <<>>, exc |-> "", excMsg |-> <<>>]

\* the tool called on its own has not been called yet
NotCalled == [exc |-> "none", val |-> PyNone, msg |-> <<>>]

\* nothing noted down yet
NoTurn == [n |-> 0, prompt |-> <<>>, request |-> PyNone, reply |-> NoReply,
           out |-> <<>>, calls |-> <<>>, exc |-> "none", excMsg |-> <<>>]

\* the finished turn, as an observer sees it: which call of work it was, the
\* query, the request that went out, what the service did, what was printed,
\* which tools ran, what was raised
Turn == [n |-> nWork, prompt |-> prompt, request |-> request, reply |-> reply,
         out |-> out, calls |-> calls, exc |-> exc, excMsg |-> excMsg]

\* ---------------------------------------------------------------- actions
\* Agent(tools, model_config): self.tool_descriptions = self.prepare_tools();
\* the notebook's cells: tools_description = prepare_tools(tools).
Constructed ==
  /\ impl \in {"agent", "notebook"}
  /\ \E i \in 1..Len(ToolLists) :
       tools = IF impl = "agent" THEN ToolLists[i]
               ELSE [k \in 1..Len(ToolLists[i]) |-> NotebookTool(ToolLists[i][k])]
  /\ \E j \in 1..Len(Templates(impl)) : config = Config(impl, Templates(impl)[j])
  /\ tool_descriptions = IF impl = "agent" THEN Agent_prepare_tools(tools)
                         ELSE prepare_tools(tools)
  /\ request = PyNone
  /\ kept = NoTurn
  /\ pc = "idle"
  /\ prompt = <<>>
  /\ sent = 0
  /\ reply = NoReply
  /\ response = PyNone
  /\ out = <<>>
  /\ calls = <<>>
  /\ exc = ""
  /\ excMsg = <<>>
  /\ nWork = 0

\* The program as the notebooks run it: one caller, one turn at a time
Init ==
  /\ Constructed
  /\ thread = [c \in Callers |-> Idle]
  /\ stdout = <<>>
  /\ arg = PyNone
  /\ ret = NotCalled

\* A program that keeps the conversation: the query of the turn before is
\* put in front of the new one in the request
Begin_Threading(q) ==
  /\ pc # "waiting"
  /\ nWork < MaxWork
  /\ \E req \in {Request(config, tool_descriptions, prompt \o q)} :
       /\ pc' = IF req.exc = "" THEN "waiting" ELSE "done"
       /\ sent' = IF req.exc = "" THEN 1 ELSE 0
       /\ request' = req.val
       /\ exc' = req.exc
       /\ excMsg' = req.msg
  /\ prompt' = q
  /\ reply' = NoReply
  /\ response' = PyNone
  /\ out' = <<>>
  /\ calls' = <<>>
  /\ nWork' = nWork + 1
  /\ UNCHANGED <<impl, tools, config, tool_descriptions, pair, bench>>

\* work(prompt) up to requests.post: the payload is built and the request goes
\* out, and the call blocks; when format raises, the call ends there.
Begin(q) ==
  /\ pc # "waiting"
  /\ nWork < MaxWork
  /\ \E req \in {Request(config, tool_descriptions, q)} :
       /\ pc' = IF req.exc = "" THEN "waiting" ELSE "done"
       /\ sent' = IF req.exc = "" THEN 1 ELSE 0
       /\ request' = req.val
       /\ exc' = req.exc
       /\ excMsg' = req.msg
  /\ prompt' = q
  /\ reply' = NoReply
  /\ response' = PyNone
  /\ out' = <<>>
  /\ calls' = <<>>
  /\ nWork' = nWork + 1
  /\ UNCHANGED <<impl, tools, config, tool_descriptions, pair, bench>>

Post(q) == Begin(q) /\ UNCHANGED kept

\* The same step, with the observer noting down the turn that has just finished
Remember(q) == pc = "done" /\ Begin(q) /\ kept' = Turn

\* A program that posts the request once more when the first attempt did not
\* give a decision (the service unreachable, the answer not parseable)
Respond_Retrying(r) ==
  /\ pc = "waiting"
  /\ \E thought \in {think(r, impl)} :
       \E ran \in {IF thought.exc # "" THEN Ran(<<>>, <<>>, thought.exc, thought.msg)
                   ELSE IF impl = "agent" THEN Agent_execute_tool(tools, thought.val)
                   ELSE execute_tool(tools, thought.val)} :
         /\ reply' = r
         /\ response' = thought.val
         /\ out' = thought.out \o ran.out
         /\ calls' = ran.calls
         /\ exc' = ran.exc
         /\ excMsg' = ran.msg
         /\ sent' = IF thought.exc # "" \/ r.kind \in {"unreachable", "not_json"}
                    THEN sent + 1 ELSE sent
  /\ pc' = "done"
  /\ UNCHANGED <<impl, tools, prompt, nWork, config, tool_descriptions, request, kept,
                 pair, bench>>

\* A program whose dispatch takes the tools it has looked at off the list
Respond_Consuming(r) ==
  /\ pc = "waiting"
  /\ \E thought \in {think(r, impl)} :
       \E ran \in {IF thought.exc # "" THEN Ran(<<>>, <<>>, thought.exc, thought.msg)
                   ELSE IF impl = "agent" THEN Agent_execute_tool(tools, thought.val)
                   ELSE execute_tool(tools, thought.val)} :
         /\ reply' = r
         /\ response' = thought.val
         /\ out' = thought.out \o ran.out
         /\ calls' = ran.calls
         /\ exc' = ran.exc
         /\ excMsg' = ran.msg
         /\ tools' = IF ran.calls # <<>> THEN Tail(tools) ELSE tools
  /\ pc' = "done"
  /\ UNCHANGED <<impl, prompt, sent, nWork, config, tool_descriptions, request, kept,
                 pair, bench>>

\* A program that counts the calls of work it has served and prints one line
\* for each of them ahead of the turn's own output
Respond_Counting(r) ==
  /\ pc = "waiting"
  /\ \E thought \in {think(r, impl)} :
       \E ran \in {IF thought.exc # "" THEN Ran(<<>>, <<>>, thought.exc, thought.msg)
                   ELSE IF impl = "agent" THEN Agent_execute_tool(tools, thought.val)
                   ELSE execute_tool(tools, thought.val)} :
         /\ reply' = r
         /\ response' = thought.val
         /\ out' = [k \in 1..nWork |-> Printed("served", "", <<>>)]
                     \o thought.out \o ran.out
         /\ calls' = ran.calls
         /\ exc' = ran.exc
         /\ excMsg' = ran.msg
  /\ pc' = "done"
  /\ UNCHANGED <<impl, tools, prompt, sent, nWork, config, tool_descriptions, request, kept,
               pair, bench>>

\* The rest of the turn once the service has acted: think / generate_response
\* finishes, and unless it raised, execute_tool runs on what it returned
\* (Agent.work: response = self.think(prompt); self.execute_tool(response);
\* the notebook cell: response = generate_response(...); execute_tool(response, tools)).
Respond(r) ==
  /\ pc = "waiting"
  /\ \E thought \in {think(r, impl)} :
       \E ran \in {IF thought.exc # "" THEN Ran(<<>>, <<>>, thought.exc, thought.msg)
                   ELSE IF impl = "agent" THEN Agent_execute_tool(tools, thought.val)
                   ELSE execute_tool(tools, thought.val)} :
         /\ reply' = r
         /\ response' = thought.val
         /\ out' = thought.out \o ran.out
         /\ calls' = ran.calls
         /\ exc' = ran.exc
         /\ excMsg' = ran.msg
  /\ pc' = "done"
  /\ UNCHANGED <<impl, tools, prompt, sent, nWork, config, tool_descriptions, request, kept,
               pair, bench>>

Next ==
  \/ \E i \in 1..Len(Prompts) : Post(Prompts[i])
  \/ \E i \in 1..Len(Replies) : Respond(Replies[i])

Spec == Init /\ [][Next]_vars

\* The turns of one program with the notebooks' own template, watched by an
\* observer who notes down one finished turn to compare later turns with; the
\* service answers with one of a few of the replies.
Watched == {1, 2, 10, 13, 22, 30}

WatchInit == Init /\ config.system_prompt \in {Template.agent, Template.notebook}

WatchNext ==
  \/ \E i \in 1..Len(Prompts) : Post(Prompts[i])
  \/ \E i \in 1..Len(Prompts) : Remember(Prompts[i])
  \/ \E i \in Watched : Respond(Replies[i])

WatchSpec == WatchInit /\ [][WatchNext]_vars

\* Two callers of work on one Agent, their steps interleaved in any order.
\* work(prompt) of caller c up to requests.post:
ThreadBegin(c, q) ==
  /\ thread[c].pc = "idle"
  /\ \E req \in {Request(config, tool_descriptions, q)} :
       thread' = [thread EXCEPT ![c] =
                    [@ EXCEPT !.pc = IF req.exc = "" THEN "waiting" ELSE "done",
                              !.prompt = q, !.exc = req.exc, !.excMsg = req.msg]]
  /\ UNCHANGED <<impl, tools, pc, prompt, sent, reply, response, out, calls, exc, excMsg,
                 nWork, config, tool_descriptions, request, kept, stdout, bench>>

\* the lines a caller prints, as they arrive on the shared standard output
PrintedBy(c, lines) == [k \in 1..Len(lines) |-> [by |-> c, line |-> lines[k]]]

\* think of caller c from the service's answer on: response = self.think(prompt)
\* is a local of work
ThreadThink(c, r) ==
  /\ thread[c].pc = "waiting"
  /\ \E thought \in {think(r, impl)} :
       /\ thread' = [thread EXCEPT ![c] =
                       [@ EXCEPT !.pc = IF thought.exc = "" THEN "thought" ELSE "done",
                                 !.reply = r, !.response = thought.val,
                                 !.exc = thought.exc, !.excMsg = thought.msg]]
       /\ stdout' = stdout \o PrintedBy(c, thought.out)
  /\ UNCHANGED <<impl, tools, pc, prompt, sent, reply, response, out, calls, exc, excMsg,
                 nWork, config, tool_descriptions, request, kept, bench>>

\* An Agent that keeps the decision in a field between think and execute_tool:
\* a caller dispatches what the other caller's think has stored there
ThreadExecute_SharedResponse(c) ==
  /\ thread[c].pc = "thought"
  /\ \E other \in Callers \ {c} :
       \E stored \in {IF thread[other].pc \in {"thought", "done"} /\ thread[other].exc = ""
                       THEN thread[other].response ELSE thread[c].response} :
         \E ran \in {IF impl = "agent" THEN Agent_execute_tool(tools, stored)
                     ELSE execute_tool(tools, stored)} :
           /\ thread' = [thread EXCEPT ![c] =
                           [@ EXCEPT !.pc = "done", !.calls = ran.calls,
                                     !.exc = ran.exc, !.excMsg = ran.msg]]
           /\ stdout' = stdout \o PrintedBy(c, ran.out)
  /\ UNCHANGED <<impl, tools, pc, prompt, sent, reply, response, out, calls, exc, excMsg,
                 nWork, config, tool_descriptions, request, kept, bench>>

\* self.execute_tool(response) of caller c
ThreadExecute(c) ==
  /\ thread[c].pc = "thought"
  /\ \E ran \in {IF impl = "agent" THEN Agent_execute_tool(tools, thread[c].response)
                  ELSE execute_tool(tools, thread[c].response)} :
       /\ thread' = [thread EXCEPT ![c] =
                       [@ EXCEPT !.pc = "done", !.calls = ran.calls,
                                 !.exc = ran.exc, !.excMsg = ran.msg]]
       /\ stdout' = stdout \o PrintedBy(c, ran.out)
  /\ UNCHANGED <<impl, tools, pc, prompt, sent, reply, response, out, calls, exc, excMsg,
                 nWork, config, tool_descriptions, request, kept, bench>>

\* the answers the service gives to the two callers
PairReplies == {1, 2, 10, 13, 22, 30}

PairInit == Init /\ impl = "agent" /\ config.system_prompt = Template.agent

PairNext ==
  \/ \E c \in Callers : \E i \in 1..Len(Prompts) : ThreadBegin(c, Prompts[i])
  \/ \E c \in Callers : \E i \in PairReplies : ThreadThink(c, Replies[i])
  \/ \E c \in Callers : ThreadExecute(c)

PairSpec == PairInit /\ [][PairNext]_vars

\* ----------------------------------------------- the caller's own tool list
\* Agent.__init__ keeps the caller's list object (self.tools = tools), and the
\* stand-alone functions read the global list: what the caller does to the
\* list between two calls of work is seen by dispatch, while the rendering
\* was made once.
\* tools.append(tool)
ListAppend(tool) ==
  /\ pc # "waiting"
  /\ Len(tools) < MaxTools
  /\ tools' = Append(tools, tool)
  /\ UNCHANGED <<impl, pc, prompt, sent, reply, response, out, calls, exc, excMsg, nWork,
                 config, tool_descriptions, request, kept, pair, bench>>

\* tools.pop()
ListPop ==
  /\ pc # "waiting"
  /\ tools # <<>>
  /\ tools' = SubSeq(tools, 1, Len(tools) - 1)
  /\ UNCHANGED <<impl, pc, prompt, sent, reply, response, out, calls, exc, excMsg, nWork,
                 config, tool_descriptions, request, kept, pair, bench>>

AliasInit ==
  /\ Init
  /\ Len(tools) = 2 /\ tools[1].fn = "basic_calculator" /\ tools[2].fn = "reverse_string"
  /\ config.system_prompt \in {Template.agent, Template.notebook}

AliasNext ==
  \/ \E i \in 1..Len(Prompts) : Post(Prompts[i])
  \/ \E i \in Watched : Respond(Replies[i])
  \/ ListAppend(undocumented)
  \/ ListPop

AliasSpec == AliasInit /\ [][AliasNext]_vars

\* ------------------------------------------------ a tool called on its own
\* The texts given to reverse_string
Letters == {"a", "b", "!", SP}
Texts == UNION {[1..k -> Letters] : k \in 0..MaxLen}

\* The calculator's input_str for num1, num2 and operation, its keys written
\* in one of three orders
KeyOrders == << <<Key.num1, Key.num2, Key.operation>>,
               <<Key.num1, Key.operation, Key.num2>>,
               <<Key.operation, Key.num2, Key.num1>> >>

CalcText(num1, num2, operation, order) ==
  json_dumps(PyDict([k \in 1..3 |->
                       <<order[k], DictAt(CalcArgs(num1, num2, operation), order[k])>>]))

\* an operation the calculator does not have
sqrt == <<"s","q","r","t">>

\* input that is not a JSON object with the keys num1, num2 and operation:
\* prose, a JSON list, an object cut short, an object without num2
InvalidInputs ==
  { PyStr(hello),
    PyStr(json_dumps(PyList(<<PyInt(1)>>))),
    PyStr(SubSeq(CalcText(1, 2, OpName.add, KeyOrders[1]), 1, 12)),
    PyStr(json_dumps(PyDict(<< <<Key.num1, PyInt(1)>>,
                               <<Key.operation, PyStr(OpName.add)>> >>))) }

CalcInputs ==
  {PyStr(CalcText(num1, num2, op, KeyOrders[o])) :
     num1 \in -MaxNum..MaxNum, num2 \in -MaxNum..MaxNum,
     op \in SupportedOps \cup {sqrt}, o \in 1..Len(KeyOrders)}

\* what is called: the tool's place in the list <<basic_calculator,
\* reverse_string>>, and its argument
BenchInputs ==
  {Invocation(1, x) : x \in CalcInputs \cup InvalidInputs}
    \cup {Invocation(2, PyStr(s)) : s \in Texts}

BenchInit ==
  /\ Constructed
  /\ Len(tools) = 2 /\ tools[1].fn = "basic_calculator" /\ tools[2].fn = "reverse_string"
  /\ config.system_prompt \in {Template.agent, Template.notebook}
  /\ thread = [c \in Callers |-> Idle]
  /\ stdout = <<>>
  /\ arg \in BenchInputs
  /\ ret = NotCalled

\* tool(tool_input), outside any turn
Call ==
  /\ ret = NotCalled
  /\ ret' = CallTool(tools[arg.tool], arg.input, impl)
  /\ UNCHANGED <<impl, tools, pc, prompt, sent, reply, response, out, calls, exc, excMsg,
                 nWork, config, tool_descriptions, request, kept, pair, arg>>

BenchSpec == BenchInit /\ [][Call]_vars

\* The program with its own steps taken whenever they can be: the caller's
\* calls of work go ahead, while nothing obliges the service to answer.
\* (Every call of work counts one up in nWork.)
FairSpec == Spec /\ WF_nWork(\E i \in 1..Len(Prompts) : Post(Prompts[i]))

\* ------------------------------------------------- reading a finished turn
\* The turn is over: work returned or raised.
Done == pc = "done"

\* think returned a decision parsed from the generated text (not the
\* {"error": ...} value of its except clause).
Decided == Done /\ reply.kind = "json" /\ response.t = "dict"

\* the decision's two fields, as execute_tool reads them
decision_choice == DictGet(response, Key.tool_choice)
decision_input == DictGet(response, Key.tool_input)

\* the entries of the tool list whose name is the decision's tool_choice
Matching == {i \in 1..Len(tools) : PyStr(tools[i].name) = decision_choice}
FirstMatching == CHOOSE i \in Matching : \A j \in Matching : i <= j

\* the printed lines that come from one print statement of the code
Lines(stmt) == {k \in 1..Len(out) : out[k].stmt = stmt}

\* How the spec's outcomes show in the code, which prints instead of returning:
\*   ToolResult(text)                    the cyan print of the tool's result
\*   DirectAnswer(text)                  the cyan print of tool_input
\*   DispatchError(UnknownTool, name)    the red "Tool <name> not found ..." line
\*   DispatchError(ToolExecutionFailed)  the red "Error executing tool ..." line
\*   TransportError                      the "Error in invoking model! ..." line
ToolResult(text)   == \E k \in Lines("result") : out[k].text = text /\ out[k].color = "cyan"
DirectAnswer(text) == \E k \in Lines("tool_input") : out[k].text = text
UnknownTool(name)  ==
  \E k \in Lines("not_found") : out[k].text = Msg.tool_pre \o name \o Msg.not_found_post
ToolExecutionFailed(name, detail) ==
  \E k \in Lines("exec_error") :
    out[k].text = Msg.exec_error_pre \o name \o Msg.colon_sp \o detail
TransportError == Lines("invoke_error") # {}
AnyError ==
  Lines("not_found") # {} \/ Lines("exec_error") # {} \/ Lines("invoke_error") # {}

\* what the one invocation of the turn did: the tool called again on the same input
Invoked == CallTool(tools[calls[1].tool], calls[1].input, impl)

\* ------------------------------------------------------------------ claims
\* C1: a decision whose tool_choice is "no tool", empty or absent ends in
\* DirectAnswer with exactly the decision's tool_input; no tool is invoked and
\* no error is reported.
C1_NoToolIsDirectAnswer ==
  (Decided /\ decision_choice \in {PyStr(Name.no_tool), PyStr(Name.empty), PyNone})
    => /\ exc = ""
       /\ calls = <<>>
       /\ DirectAnswer(PyToStr(decision_input))
       /\ ~AnyError

\* C2: a decision whose tool_choice is a non-empty name other than "no tool"
\* that no tool of the list has ends in DispatchError(UnknownTool, tool_choice);
\* no tool is invoked and tool_input is not shown as an answer.
C2_UnknownToolIsReported ==
  (/\ Decided
   /\ decision_choice.t = "str"
   /\ decision_choice.v \notin {Name.no_tool, Name.empty}
   /\ Matching = {})
    => /\ exc = ""
       /\ calls = <<>>
       /\ UnknownTool(decision_choice.v)
       /\ Lines("tool_input") = {}

\* C3: when the invoked tool raises, the fault does not reach the caller of
\* dispatch: the turn ends in DispatchError(ToolExecutionFailed) whose detail
\* is the tool's error message.
C3_ToolFaultIsCaught ==
  (Decided /\ calls # <<>> /\ Invoked.exc # "")
    => /\ exc = ""
       /\ ToolExecutionFailed(PyToStr(decision_choice), Invoked.msg)

\* The calculator inputs whose operation fails at run time
ZeroDivisions ==
  {CalcInput(1, 0, op) : op \in {OpName.divide, OpName.floor_divide, OpName.modulus}}

\* C4: dispatching a basic_calculator decision whose operation divides by zero
\* ends in DispatchError(ToolExecutionFailed), not in ToolResult and not in an
\* uncaught fault.
C4_ZeroDivisionIsDispatchError ==
  (/\ Decided
   /\ decision_choice = PyStr(Name.basic_calculator)
   /\ decision_input \in ZeroDivisions
   /\ Matching # {}
   /\ tools[FirstMatching].fn = "basic_calculator")
    => /\ exc = ""
       /\ Lines("exec_error") # {}
       /\ Lines("result") = {}

\* C5: when tool_choice names a tool of the list and the invocation returns
\* normally, the turn ends in ToolResult carrying exactly the text the tool
\* returned for the decision's tool_input (str() of the value returned); for
\* the calculator with num1 = 5, num2 = 5, operation = add the text holds "10".
C5_ToolResultCarriesReturn ==
  (/\ Decided
   /\ Matching # {}
   /\ CallTool(tools[FirstMatching], decision_input, impl).exc = "")
    => /\ exc = ""
       /\ ~AnyError
       /\ ToolResult(PyToStr(CallTool(tools[FirstMatching], decision_input, impl).val))
       /\ out[Len(out)].stmt = "result"
       /\ (tools[FirstMatching].fn = "basic_calculator"
             /\ decision_input = CalcInput(5, 5, OpName.add)
           => Contains(out[Len(out)].text, <<"1", "0">>))

C5_Witness ==
  /\ Decided
  /\ decision_choice = PyStr(Name.basic_calculator)
  /\ decision_input = CalcInput(5, 5, OpName.add)
  /\ calls = <<Invocation(1, decision_input)>>
  /\ tools[1].fn = "basic_calculator"
  /\ out[Len(out)] = Printed("result", "cyan",
                             Msg.answer_pre \o <<"1", "0">> \o Msg.answer_post)

\* C6: in every turn at most one tool invocation happens: it is of the first
\* entry of the list with the chosen name, on the decision's tool_input; after
\* an unknown tool or a tool fault no second tool is invoked and the
\* invocation is not repeated, also when several entries have the chosen name.
C6_AtMostOneInvocation ==
  /\ Len(calls) <= 1
  /\ (Done /\ calls # <<>>) => /\ Decided
                               /\ Matching # {}
                               /\ calls[1] = Invocation(FirstMatching, decision_input)
  /\ (Decided /\ Matching = {}) => calls = <<>>
  /\ pc = "waiting" => calls = <<>>

C6_Witness ==
  /\ Decided
  /\ Cardinality(Matching) > 1
  /\ Len(calls) = 1
  /\ Invoked.exc # ""

\* C7: after construction no turn ever raises to its caller, whatever the
\* completion service and the tool do.
C7_WorkNeverRaises == exc = ""

\* C8: when the generated text is not parseable, the turn yields an outcome
\* that carries the raw text; it does not raise and no tool is dispatched.
C8_UnparseableIsReported ==
  (/\ Done
   /\ reply.kind = "json"
   /\ reply.body.t = "dict"
   /\ DictGet(reply.body, Key.response).t = "str"
   /\ json_loads(DictGet(reply.body, Key.response).v).exc # "")
    => /\ exc = ""
       /\ calls = <<>>
       /\ \E k \in 1..Len(out) : Contains(out[k].text, DictGet(reply.body, Key.response).v)

\* C9: when the service is unreachable or answers with a non-success status,
\* the turn ends in TransportError and in none of UnknownTool, DirectAnswer or
\* a tool's result, and no tool is invoked.
C9_TransportErrorIsDistinct ==
  (Done /\ (reply.kind = "unreachable"
             \/ (reply.kind # "none" /\ reply.status \notin 200..299)))
    => /\ exc = ""
       /\ calls = <<>>
       /\ TransportError
       /\ Lines("not_found") = {}
       /\ Lines("tool_input") = {}
       /\ Lines("result") = {}

\* C10: a generated text that parses as an object without exactly the keys
\* tool_choice and tool_input is never dispatched: no tool is invoked on it
\* and it is not turned into a direct answer.
C10_WrongKeysNotDispatched ==
  (Decided /\ {response.v[i][1] : i \in 1..Len(response.v)} # {Key.tool_choice, Key.tool_input})
    => /\ calls = <<>>
       /\ Lines("tool_input") = {}
       /\ Lines("result") = {}

\* two tools of the list share a name
DuplicateNames ==
  \E i, j \in 1..Len(tools) : i < j /\ tools[i].name = tools[j].name

\* the names that more than one tool of the list has
Duplicated == {tools[i].name : i \in {k \in 1..Len(tools) :
                                       \E j \in 1..Len(tools) : j # k /\ tools[j].name = tools[k].name}}

\* C11: building the catalog from a tool list in which two tools share a name
\* fails: no rendering is produced, and no tool of that name is ever dispatched.
C11_DuplicateNameFails ==
  DuplicateNames
    => /\ tool_descriptions = <<>>
       /\ \A k \in 1..Len(calls) : tools[calls[k].tool].name \notin Duplicated

\* the construction is over and no turn has begun
Built == nWork = 0

\* the positions of text s at which sub begins
Occurrences(s, sub) ==
  {i \in 1..(Len(s) - Len(sub) + 1) : SubSeq(s, i, i + Len(sub) - 1) = sub}

\* The description the spec gives a tool: the first line of its documentation,
\* and the fixed placeholder when it has none.
FirstDocLine(tool) ==
  IF tool.doc.t = "str" /\ tool.doc.v # <<>>
  THEN SplitLines(Strip(tool.doc.v, Whitespace))[1]
  ELSE <<"N","o"," ","d","e","s","c","r","i","p","t","i","o","n"," ",
         "a","v","a","i","l","a","b","l","e">>

\* what prepare_tools gives for the tool list, computed again
Rendering == IF impl = "agent" THEN Agent_prepare_tools(tools) ELSE prepare_tools(tools)

\* C12: for a tool list with pairwise distinct names the rendering holds each
\* tool's name exactly once and each tool's description exactly once, in
\* registration order, and rendering the same list again gives the same text.
C12_RenderingListsEachToolOnce ==
  (Built /\ ~DuplicateNames)
    => /\ \A i \in 1..Len(tools) :
            /\ Cardinality(Occurrences(tool_descriptions, tools[i].name)) = 1
            /\ Cardinality(Occurrences(tool_descriptions, FirstDocLine(tools[i]))) = 1
       /\ \A i, j \in 1..Len(tools) :
            i < j => \A p \in Occurrences(tool_descriptions, tools[i].name) :
                       \A q \in Occurrences(tool_descriptions, tools[j].name) : p < q
       /\ tool_descriptions = Rendering

\* the tool has documentation
Documented(tool) == tool.doc.t = "str" /\ tool.doc.v # <<>>

\* C13: for every tool with documentation, the description of the descriptor
\* Agent.prepare_tools builds is the first line of that documentation, whatever
\* the lines under Parameters, Returns and Raises hold.
C13_DescriptionIsFirstLine ==
  (Built /\ impl = "agent")
    => \A i \in 1..Len(tools) :
         Documented(tools[i])
           => /\ DictAt(ToolInfo(tools[i]), Txt.description) = PyStr(FirstDocLine(tools[i]))
              /\ Occurrences(tool_descriptions,
                             Txt.use_pre \o tools[i].name \o Txt.use_mid
                               \o FirstDocLine(tools[i]) \o <<NL>>) # {}

\* where the entries of the rendering begin: Agent.prepare_tools opens each
\* with "Use the function '", the stand-alone prepare_tools with the name
Entries == Occurrences(tool_descriptions, Txt.use_pre)

\* C14: whatever the documentation of the tools holds (lines without a colon,
\* without a type, with an unclosed parenthesis, or no documentation at all),
\* the construction completes and every tool of the list is in the rendering:
\* Agent.prepare_tools has one entry per tool, the k-th naming the k-th tool,
\* and the stand-alone prepare_tools has an entry for every name.
C14_EveryToolIsRendered ==
  Built
    => IF impl = "agent"
       THEN /\ Cardinality(Entries) = Len(tools)
            /\ \A k \in 1..Len(tools) :
                 StartsWith(tool_descriptions, Kth(Entries, k),
                            Txt.use_pre \o tools[k].name \o Txt.use_mid)
       ELSE \A k \in 1..Len(tools) :
              Occurrences(tool_descriptions, tools[k].name \o <<":", SP, DQ>>) # {}

C14_Witness ==
  /\ Built
  /\ impl = "agent"
  /\ \E k \in 1..Len(tools) : tools[k].doc = PyStr(Doc.malformed)
  /\ \E k \in 1..Len(tools) : tools[k].doc = PyNone
  /\ Occurrences(tool_descriptions, Txt.use_pre \o Txt.join_words \o Txt.use_mid) # {}
  /\ Occurrences(tool_descriptions, DumpStr(<<"t","h","i","r","d">>)) # {}
  /\ Occurrences(tool_descriptions, DumpStr(<<"f","i","r","s","t">>)) = {}

\* the placeholder the spec fixes for a tool without documentation
NoDescriptionAvailable ==
  <<"N","o"," ","d","e","s","c","r","i","p","t","i","o","n"," ",
    "a","v","a","i","l","a","b","l","e">>

\* C15: for a tool without documentation the descriptor has the description
\* "No description available" and no parameters; where no descriptor is built
\* (the stand-alone prepare_tools), the tool's entry shows that placeholder.
C15_UndocumentedGetsPlaceholder ==
  Built
    => \A i \in 1..Len(tools) :
         ~Documented(tools[i])
           => IF impl = "agent"
              THEN /\ DictAt(ToolInfo(tools[i]), Txt.description) = PyStr(NoDescriptionAvailable)
                   /\ DictAt(ToolInfo(tools[i]), Txt.parameters) = PyDict(<<>>)
              ELSE Occurrences(tool_descriptions,
                               tools[i].name \o <<":", SP, DQ>> \o NoDescriptionAvailable
                                 \o <<DQ>>) # {}

\* the placeholder for the catalog's rendering, as a template writes it
Placeholder == <<"{">> \o Txt.tool_descriptions \o <<"}">>

\* C16: with a system prompt template that lacks the {tool_descriptions}
\* placeholder, building the instruction fails: every call of work ends with
\* an error before anything is sent, and no request holding the template is
\* ever produced.
C16_TemplateWithoutPlaceholderFails ==
  (nWork > 0 /\ ~Contains(config.system_prompt, Placeholder))
    => /\ pc = "done"
       /\ exc # ""
       /\ sent = 0
       /\ request = PyNone

\* the turn that has just finished repeats the noted one: the same query, and
\* the service, being deterministic, did the same with it
Repeated == Done /\ kept # NoTurn /\ kept.prompt = prompt /\ kept.reply = reply

\* C17: with a deterministic service and the notebooks' side-effect-free
\* tools, a call of work with the query of an earlier call has the same
\* outcome (the same request, output, tool runs and exception), whatever
\* calls were made before or between the two.
C17_SameQuerySameOutcome ==
  Repeated
    => /\ kept.request = request
       /\ kept.out = out
       /\ kept.calls = calls
       /\ kept.exc = exc
       /\ kept.excMsg = excMsg

\* the third call repeats the first one, which ran a tool, after another call
C17_Witness == Repeated /\ kept.n = 1 /\ nWork = 3 /\ calls # <<>>

\* C18: the request of a turn is determined by the configuration, the
\* catalog's rendering and the query alone: it is the payload built from these
\* three, and it equals the request of any earlier turn with the same query,
\* whatever the turns in between asked, were answered and printed.
C18_RequestHasNoHistory ==
  nWork > 0
    => /\ request = Request(config, tool_descriptions, prompt).val
       /\ (kept # NoTurn /\ kept.prompt = prompt) => kept.request = request

\* the third request repeats the query of the first turn, which the service
\* answered and which ran a tool, with a second turn in between
C18_Witness ==
  /\ pc = "waiting" /\ nWork = 3
  /\ kept.n = 1 /\ kept.prompt = prompt /\ kept.calls # <<>>
  /\ request # PyNone

\* C19: every call of work comes to an end, also when the service never
\* answers: the request that is waiting for the service is given up after the
\* caller's timeout and the turn finishes.
C19_WorkTerminates == (pc = "waiting") ~> (pc = "done")

\* The stage of the finished turn that failed, read off what the service and
\* the tool did:
\*   transport: the service was unreachable or answered with a non-success status
\*   parsing:   the service answered, and what it generated is no decision object
\*   lookup:    the decision names a tool that the list does not have
\*   execution: the tool was invoked and raised, or returned its own report of
\*              a failure (the calculator's 2-tuple for invalid input and for a
\*              failed operation)
TransportFailed ==
  Done /\ (reply.kind = "unreachable" \/ (reply.kind # "none" /\ reply.status \notin 200..299))
ParsingFailed ==
  Done /\ reply.kind \notin {"none", "unreachable"} /\ reply.status \in 200..299 /\ ~Decided
LookupFailed ==
  /\ Decided /\ ~TransportFailed
  /\ decision_choice.t = "str"
  /\ decision_choice.v \notin {Name.no_tool, Name.empty}
  /\ Matching = {}
ExecutionFailed ==
  /\ Decided /\ ~TransportFailed
  /\ calls # <<>>
  /\ (Invoked.exc # "" \/ Invoked.val.t = "tuple")

\* the turn shows no error line other than those of the statements in stmts,
\* and nothing the way a tool result or a direct answer is shown
ShowsOnly(stmts) ==
  /\ \A s \in {"invoke_error", "not_found", "exec_error"} \ stmts : Lines(s) = {}
  /\ Lines("result") = {}
  /\ Lines("tool_input") = {}

\* C20: in every turn in which a stage fails, the turn returns with an error
\* message of that stage on display; it shows no tool result and no direct
\* answer, and no error message of another stage.
C20_FailureNamesItsStage ==
  /\ TransportFailed => (exc = "" /\ TransportError /\ ShowsOnly({"invoke_error"}))
  /\ ParsingFailed   => (exc = "" /\ out # <<>> /\ ShowsOnly({}))
  /\ LookupFailed    => (exc = "" /\ Lines("not_found") # {} /\ ShowsOnly({"not_found"}))
  /\ ExecutionFailed => (exc = "" /\ Lines("exec_error") # {} /\ ShowsOnly({"exec_error"}))

\* the member "key": value of a JSON object, as json.dumps writes it
Member(key, value) == json_dumps(PyStr(key)) \o <<":", SP>> \o json_dumps(value)

\* the instruction: the template with the catalog's rendering put in
Instruction == Format(config.system_prompt, 1, tool_descriptions).val

\* C21: every request sent to the service is a JSON object that carries the
\* configured model, the assembled instruction as system, the query as it was
\* given as prompt, stream = false, the configured temperature and stop, and
\* format = json.
C21_RequestCarriesAllFields ==
  sent = 1
    => /\ request.t = "str"
       /\ request.v[1] = "{" /\ request.v[Len(request.v)] = "}"
       /\ \A member \in { Member(Txt.model, PyStr(config.model)),
                          Member(Txt.system, Instruction),
                          Member(Txt.prompt, PyStr(prompt)),
                          Member(Txt.stream, PyBool(FALSE)),
                          Member(Txt.temperature, config.temperature),
                          Member(Txt.stop, config.stop),
                          Member(Txt.format, PyStr(Txt.json)) } :
            Cardinality(Occurrences(request.v, member)) = 1

\* a request with the notebook's own template is waiting for the service
C21_Witness ==
  /\ pc = "waiting" /\ sent = 1
  /\ config.system_prompt \in {Template.agent, Template.notebook}
  /\ tools # <<>>

\* what a call of work does when it runs alone and the service answers r:
\* think, and unless think raised, execute_tool on what it returned
Alone(r) ==
  Let(think(r, impl),
      LAMBDA thought :
        IF thought.exc # "" THEN Ran(thought.out, <<>>, thought.exc, thought.msg)
        ELSE Let(IF impl = "agent" THEN Agent_execute_tool(tools, thought.val)
                 ELSE execute_tool(tools, thought.val),
                 LAMBDA ran : Ran(thought.out \o ran.out, ran.calls, ran.exc, ran.msg)))

\* the lines caller c has printed, in order
LinesOf(c) ==
  Let(SelectSeq(stdout, LAMBDA p : p.by = c),
      LAMBDA mine : [k \in 1..Len(mine) |-> mine[k].line])

\* every caller that has finished has printed, invoked and raised what its call
\* does alone, and each invocation got the tool_input of the caller's own decision
EachAsAlone ==
  \A c \in Callers :
    (thread[c].pc = "done" /\ thread[c].reply # NoReply)
      => /\ Ran(LinesOf(c), thread[c].calls, thread[c].exc, thread[c].excMsg)
              = Alone(thread[c].reply)
         /\ \A k \in 1..Len(thread[c].calls) :
              /\ thread[c].calls[k].input = DictGet(thread[c].response, Key.tool_input)
              /\ PyStr(tools[thread[c].calls[k].tool].name)
                   = DictGet(thread[c].response, Key.tool_choice)

\* C22: when two calls of work on one Agent are interleaved in any order, each
\* call has the outcome it has when it runs alone, no call dispatches with the
\* other call's tool_choice or tool_input, and no step changes the tool list,
\* the catalog's rendering or the configuration.
C22_InterleavedCallsAreIndependent ==
  []EachAsAlone /\ [][UNCHANGED <<tools, tool_descriptions, config>>]_vars

\* both callers have finished, each having run a tool on another input, and
\* the second caller printed between two lines of the first
C22_Witness ==
  /\ \A c \in Callers : thread[c].pc = "done" /\ thread[c].calls # <<>>
  /\ thread[1].calls # thread[2].calls
  /\ \E i, j, k \in 1..Len(stdout) :
       i < j /\ j < k /\ stdout[i].by = 1 /\ stdout[j].by = 2 /\ stdout[k].by = 1

C24_WorkLeavesAgentUnchanged ==
  [][UNCHANGED <<tools, tool_descriptions, config>>]_vars

\* a second call of work has ended, having run a tool
C24_Witness == Done /\ nWork >= 2 /\ calls # <<>> /\ ToolResult(PyToStr(Invoked.val))

\* the calculator has been called on its own
Calculated == ret # NotCalled /\ tools[arg.tool].fn = "basic_calculator"

\* the calculator's input asks for an operation that is not supported, or for
\* a division, floor division or modulus by zero
Unsupported ==
  \E num1, num2 \in -MaxNum..MaxNum : \E o \in 1..Len(KeyOrders) :
    arg.input = PyStr(CalcText(num1, num2, sqrt, KeyOrders[o]))
DividesByZero ==
  \E num1 \in -MaxNum..MaxNum : \E o \in 1..Len(KeyOrders) :
    \E op \in {OpName.divide, OpName.floor_divide, OpName.modulus} :
      arg.input = PyStr(CalcText(num1, 0, op, KeyOrders[o]))

\* C25: basic_calculator raises ValueError when the operation is not a
\* supported one or the input is not a JSON object with the keys num1, num2
\* and operation, and raises when the operation itself fails; in none of
\* these cases does it return a value.
C25_CalculatorRaises ==
  Calculated
    => /\ (Unsupported \/ arg.input \in InvalidInputs) => ret.exc = "ValueError"
       /\ DividesByZero => ret.exc \notin {"", "none"}

\* the text the service generated, when it generated one
Generation == DictGet(reply.body, Key.response)

\* the normalization the spec asks for, as basic_calculator does it for its
\* own input: single quotes become double quotes, wrapping whitespace and
\* double quotes are stripped
Normalized(text) == Strip(Strip(Replace(text, SQ, DQ), Whitespace), {DQ})

\* C26: a generated text that is a two-key decision once its quotes are
\* normalized and its wrapping stripped (written with single quotes, say) is
\* parsed into that decision: the turn does not reject it.
C26_ResponseIsNormalized ==
  (/\ Done
   /\ reply.kind = "json" /\ reply.status = 200 /\ reply.body.t = "dict"
   /\ Generation.t = "str"
   /\ json_loads(Normalized(Generation.v)).exc = ""
   /\ json_loads(Normalized(Generation.v)).val.t = "dict"
   /\ LET kvs == json_loads(Normalized(Generation.v)).val.v
      IN  {kvs[i][1] : i \in 1..Len(kvs)} = {Key.tool_choice, Key.tool_input})
    => /\ response = json_loads(Normalized(Generation.v)).val
       /\ exc \notin {"JSONDecodeError"}

\* reverse_string has been called on its own, on a text
ReversedText ==
  ret # NotCalled /\ tools[arg.tool].fn = "reverse_string" /\ arg.input.t = "str"

\* what the returned text holds between "The reversed string is: " and the
\* closing sentence
Embedded ==
  SubSeq(ret.val.v, Len(Msg.reversed_pre) + 1, Len(Msg.reversed_pre) + Len(arg.input.v))

\* C27: for every text s, reverse_string(s) returns a text that embeds, after
\* its opening words, exactly the characters of s in reverse order, followed
\* by the closing sentence; reversing the embedded part gives s again.
C27_ReverseEmbedsReversal ==
  ReversedText
    => /\ ret.exc = "" /\ ret.val.t = "str"
       /\ Len(ret.val.v) > Len(Msg.reversed_pre) + Len(arg.input.v)
       /\ SubSeq(ret.val.v, 1, Len(Msg.reversed_pre)) = Msg.reversed_pre
       /\ \A i \in 1..Len(arg.input.v) :
            Embedded[i] = arg.input.v[Len(arg.input.v) + 1 - i]
       /\ SubSeq(ret.val.v, Len(Msg.reversed_pre) + Len(arg.input.v) + 1, Len(ret.val.v))
            \in {Msg.reversed_post_agent, Msg.reversed_post_nb}
       /\ [i \in 1..Len(Embedded) |-> Embedded[Len(Embedded) + 1 - i]] = arg.input.v

\* a text of three characters, not a palindrome, has been reversed
C27_Witness ==
  /\ ReversedText
  /\ Len(arg.input.v) = 3 /\ arg.input.v[1] # arg.input.v[3]
  /\ ret.exc = ""

\* the names a tool list of the program may hold
ToolNames == {Name.basic_calculator, Name.reverse_string, Txt.undocumented, Txt.join_words}

\* the instruction sent to the model describes a tool of this name: the
\* catalog's rendering has an entry for it
Described(name) ==
  IF impl = "agent"
  THEN Contains(tool_descriptions, Txt.use_pre \o name \o Txt.use_mid)
  ELSE Contains(tool_descriptions, name \o <<":", SP, DQ>>)

\* dispatch can invoke a tool of this name: the list it walks holds one
Dispatchable(name) == \E i \in 1..Len(tools) : tools[i].name = name

\* C28: at every point of the program's lifetime, after any calls of work and
\* any changes the caller makes to the list object it passed in, the names of
\* the tools dispatch can invoke are the names of the tools described in the
\* instruction.
C28_DispatchableIsDescribed ==
  \A name \in ToolNames : Dispatchable(name) <=> Described(name)

\* The lines of a documentation's Parameters section: those after the
\* "Parameters:" line, up to the blank line that ends the section
ParametersSection(doc) ==
  Let(SplitLines(Strip(doc, Whitespace)),
      LAMBDA lines :
        Let({h \in 1..Len(lines) : Contains(lines[h], Txt.parameters_head)},
            LAMBDA heads :
              IF heads = {} THEN {}
              ELSE Let(Kth(heads, 1),
                       LAMBDA h :
                         {lines[k] : k \in {j \in (h + 1)..Len(lines) :
                                              \A b \in (h + 1)..j :
                                                Strip(lines[b], Whitespace) # <<>>}})))

\* the parameter a line `name (type): description` documents
DocumentedName(line) ==
  Strip(Split1(Split1(line, <<":">>)[1], <<"(">>)[1], Whitespace)

\* the names of the entries of a descriptor's parameters
ParameterNames(info) ==
  {DictAt(info, Txt.parameters).v[k][1] : k \in 1..Len(DictAt(info, Txt.parameters).v)}

\* C29: in Agent.prepare_tools the parameter names of a descriptor are exactly
\* the names documented by the lines of the Parameters section; the lines of
\* the sections that follow (Returns, Raises) add no entry.
C29_OnlyParametersSectionCounts ==
  (Built /\ impl = "agent")
    => \A i \in 1..Len(tools) :
         Documented(tools[i])
           => ParameterNames(ToolInfo(tools[i]))
                = {DocumentedName(line) :
                     line \in {l \in ParametersSection(tools[i].doc.v) : Contains(l, <<":", SP>>)}}

\* the operations on integers the claim is about
IntegerOps ==
  {OpName.add, OpName.subtract, OpName.multiply, OpName.floor_divide, OpName.modulus,
   OpName.lt, OpName.le, OpName.eq, OpName.ne, OpName.ge, OpName.gt}

\* what the calculator's input text asks for, read by key
Asked == json_loads(arg.input.v).val
AskedOp == DictAt(Asked, Key.operation).v
AskedNum1 == DictAt(Asked, Key.num1).v
AskedNum2 == DictAt(Asked, Key.num2).v

\* the calculator was called on its own with an integer operation that is
\* defined on its operands
IntegerCalculation ==
  /\ Calculated
  /\ arg.input \in CalcInputs
  /\ AskedOp \in IntegerOps
  /\ AskedOp \in {OpName.floor_divide, OpName.modulus} => AskedNum2 # 0

\* the quotient rounded towards minus infinity
Floored(a, b) ==
  CHOOSE q \in (-MaxNum - 1)..(MaxNum + 1) :
    IF b > 0 THEN q * b <= a /\ a < q * b + b ELSE q * b >= a /\ a > q * b + b

\* str() of the value of the operation on (a, b), in that order
ValueText(op, a, b) ==
  CASE op = OpName.add          -> IntToText(a + b)
    [] op = OpName.subtract     -> IntToText(a - b)
    [] op = OpName.multiply     -> IntToText(a * b)
    [] op = OpName.floor_divide -> IntToText(Floored(a, b))
    [] op = OpName.modulus      -> IntToText(a - b * Floored(a, b))
    [] OTHER ->
         IF (CASE op = OpName.lt -> a < b
               [] op = OpName.le -> a <= b
               [] op = OpName.eq -> a = b
               [] op = OpName.ne -> a # b
               [] op = OpName.ge -> a >= b
               [] OTHER          -> a > b)
         THEN <<"T","r","u","e">> ELSE <<"F","a","l","s","e">>

\* C30: for every integer operation and all operands of the bounded range on
\* which it is defined, basic_calculator returns the success text carrying
\* the value of the operation on (num1, num2) in that order, whatever the
\* order of the keys in the input text.
C30_CalculatorComputes ==
  IntegerCalculation
    => ret = Return(PyStr(Msg.answer_pre \o ValueText(AskedOp, AskedNum1, AskedNum2)
                            \o Msg.answer_post))

\* a floor division of a negative by a positive number, asked for with the
\* operation written first and num2 before num1
C30_Witness ==
  /\ IntegerCalculation
  /\ arg.input = PyStr(CalcText(-3, 2, OpName.floor_divide, KeyOrders[3]))
  /\ ret.exc = ""

====
